---- MODULE Spec2Model ----
(***************************************************************************)
(* ODR-DabMod SDR output core: the SDR output stage (src/output/SDR.cpp)   *)
(* feeding the Dexter driver (src/output/Dexter.cpp).                      *)
(*                                                                         *)
(* Number representation.  TLC integers are 32 bit, the program's clock    *)
(* counts are 64 bit.  A clock count is kept as a pair <<q, r>> standing   *)
(* for q * DSP_CLOCK + r (mod 2^64) with 0 <= r < DSP_CLOCK; a point in    *)
(* time is a pair <<sec, sub>> with sub in units of 1/16384000 s, the unit *)
(* of timestamp_pps.  Sums and differences are exact on these pairs.       *)
(* Floating point comparisons of the program are made on the exact values. *)
(***************************************************************************)
EXTENDS Integers, Sequences, FiniteSets, TLC

(***************************************************************************)
(* Program constants                                                       *)
(***************************************************************************)
DSP_CLOCK == 2048000 * 80
PPS_TICKS == 16384000
TIMESTAMP_PPS_PER_DSP_CLOCKS == DSP_CLOCK \div 16384000
TRANSMISSION_FRAME_LEN_SAMPS == (2656 + 76 * 2552) * 2
IIO_BUFFERS == 2
frame_len_bytes == TRANSMISSION_FRAME_LEN_SAMPS * 2
FRAMES_MAX_SIZE_UNSYNC == 8
FRAMES_MAX_SIZE_SYNC == 250
TIMESTAMP_ABORT_FUTURE == 100
\* 0.2 s, the hand-off margin and the settling sleep of the alignment
MARGIN_TICKS == PPS_TICKS \div 5

(***************************************************************************)
(* Bounds of the model                                                     *)
(***************************************************************************)
\* wall clock second at construction
StartSec == 1
\* time-advancing steps are disabled once the wall clock passes this second
MaxSec == 8
\* number of frames the modulator hands over
MaxPush == 4
\* the same, where the queue is filled beyond FRAMES_MAX_SIZE_UNSYNC
MaxQueuePush == 10
\* the same, where the queue is filled beyond FRAMES_MAX_SIZE_SYNC
MaxFill == 251
MaxTxPush == 2
LateTicks == 1638400
MaxStreamPush == 4
StreamStart == 4
StreamPhase == 13238272
FarJump == 200
MaxSteadyPush == 100
MaxMetaPush == 3
MaxShutdownPush == 4
MaxMonitorPush == 2
MaxGatesPush == 3
ShortFrameLen == 786428
\* fraction of a second by which the DSP counter is ahead of the PPS edge
HwClkPhase == 100000000
\* value of the DSP counter at wall clock second 0, in whole seconds
HwClkEpoch == 3
\* configured txgain and max_gps_holdover_time
ConfTxGain == 2
ConfHoldover == 1
\* error of the second pps_clks reading when the PPS and DSP clocks disagree
PpsDrift == 1
\* configured frequency in Hz (channel 12C)
ConfFrequency == 227360000
\* a gain and a frequency (not in the channel table) set by the remote control
RcTxGain == 3
RcFrequency == 200000000

(***************************************************************************)
(* Arithmetic on clock counts and on points in time                        *)
(***************************************************************************)
ClkNorm(q, r) == <<q + (r \div DSP_CLOCK), r % DSP_CLOCK>>

ClkAdd(a, b) == ClkNorm(a[1] + b[1], a[2] + b[2])

ClkSub(a, b) == ClkNorm(a[1] - b[1], a[2] - b[2])

TimeNorm(s, u) == <<s + (u \div PPS_TICKS), u % PPS_TICKS>>

TimeAdd(a, b) == TimeNorm(a[1] + b[1], a[2] + b[2])

\* lexicographic order, for pairs in normal form
PairLt(a, b) == a[1] < b[1] \/ (a[1] = b[1] /\ a[2] < b[2])

\* a - b < lim, for points in time a, b and 0 < lim < PPS_TICKS ticks
TimeDiffLt(a, b, lim) ==
    LET ds == a[1] - b[1]
    IN  IF ds < 0 THEN TRUE
        ELSE IF ds > 1 THEN FALSE
        ELSE ds * PPS_TICKS + (a[2] - b[2]) < lim

\* a - b > maxsec seconds, for points in time a, b
ElapsedGt(a, b, maxsec) ==
    LET ds == a[1] - b[1]
    IN  ds > maxsec \/ (ds = maxsec /\ a[2] > b[2])

(***************************************************************************)
(* State                                                                   *)
(***************************************************************************)
VARIABLES
    \* Dexter
    m_clock_state,              \* "Startup", "Normal", "Holdover"
    m_utc_seconds_at_startup,
    m_clock_count_at_startup,   \* clock count
    m_holdover_since,           \* point in (steady) time, or HOLDOVER_NONE
    m_holdover_since_t,         \* UTC second, or 0
    m_channel_is_up,
    m_require_timestamp_refresh,
    num_late,
    num_frames_modulated,
    underflows,
    prev_underflows,
    \* hardware attributes of dexter_dsp_tx
    hw,
    \* SDR
    m_config,                   \* SDRDeviceConfig, shared by SDR and Dexter
    m_frame,                    \* staging buffer (its length in bytes)
    m_queue,
    m_running,
    num_queue_overflows,
    last_tx,                    \* last_tx_second, last_tx_pps, last_tx_time_initialised
    \* threads
    pcMod,                      \* modulator: "ctor", "failed", "process" or "metadata"
    pc,                         \* worker: "wait" (in wait_and_pop), "gate1", "checks", "transmit", "exit"
    cur,                        \* the frame the worker holds
    \* the poller thread and the resources it shares with the driver
    poller,                     \* its position ("loop", "read", "lock", "locked", "exit"),
                                \* underflows_attr and r
    m_attr_thread_mutex,        \* "free", or the thread that holds it
    dexter_running,             \* Dexter::m_running
    m_ctx,                      \* "open" or "destroyed"
    \* FrequencyInterleaver
    m_fixedPoint,
    m_carriers,
    m_indices,                  \* the table; entry k of the code is m_indices[k + 1]
    pcFI,                       \* the position of the constructor ("none", "loop",
                                \* "failed", "built") or of process() ("process"), the
                                \* locals num, beta, j and perm of the constructor and
                                \* whether it wrote past the table, the locals i, j and
                                \* out (as an offset in samples) of do_process
    dataOut,                    \* the output buffer of process(): its length in bytes and
                                \* its samples (the position of the input sample, or
                                \* Unwritten)
    \* environment
    now,                        \* wall clock, point in time
    \* observation
    npushed,                    \* frames accepted into the queue so far
    handed,                     \* id of the last frame handed to handle_frame
    acct,                       \* frames per fate that has no counter in the code, and the
                                \* alignment reference the channel was armed with
    ev                          \* the last operation, its inputs and its effects

dexter == <<m_clock_state, m_utc_seconds_at_startup, m_clock_count_at_startup,
            m_holdover_since, m_holdover_since_t>>
channel == <<m_channel_is_up, m_require_timestamp_refresh, num_late,
             num_frames_modulated, underflows, prev_underflows, hw>>
sdr == <<m_frame, m_queue, m_running, num_queue_overflows, last_tx>>
driver == <<poller, m_attr_thread_mutex, dexter_running, m_ctx>>
interleaver == <<m_fixedPoint, m_carriers, m_indices, pcFI, dataOut>>
vars == <<dexter, channel, sdr, driver, interleaver, m_config, pcMod, pc, cur, now, npushed,
          handed, acct, ev>>

\* a sample of the output buffer that process() has not written
Unwritten == -1

\* no FrequencyInterleaver is constructed yet
NoInterleaver == [pc |-> "none", mode |-> 0, num |-> 0, beta |-> 0, j |-> 0, perm |-> 0,
                  overrun |-> FALSE, i |-> 0, out |-> 0]

\* SDR::m_size, bytes per complex sample
m_size == 4

\* chrono::steady_clock::time_point::min()
HOLDOVER_NONE == <<-1, 0>>

NoFrame == [id |-> 0, buf |-> 0, sampleSize |-> 0, valid |-> FALSE, sec |-> 0, pps |-> 0,
            offset_changed |-> FALSE]

\* op: the operation; arg: its numeric input; bad: the attribute whose access failed
\* or whose failure was hit;
\* from: the clock state before; ret: the outcome; ticks: calls of handle_hw_time;
\* log: hardware accesses in order; frame: the frame concerned;
\* overflowed, new_size: the result of push_overflow;
\* parameter: the name given to the remote control; out: the value returned
NoEv == [op |-> "init", arg |-> 0, bad |-> "none", from |-> "Startup", ret |-> "none",
         ticks |-> 0, log |-> <<>>, frame |-> NoFrame, overflowed |-> FALSE, new_size |-> 0,
         parameter |-> "none", out |-> <<>>]

\* the clks attribute at wall clock time t
HwClks(t) == ClkNorm(t[1] + HwClkEpoch, HwClkPhase + t[2] * TIMESTAMP_PPS_PER_DSP_CLOCKS)

\* the pps_clks attribute at wall clock time t: the counter at the last PPS edge
HwPpsClks(t) == <<t[1] + HwClkEpoch, HwClkPhase>>

(***************************************************************************)
(* Dexter::handle_hw_time.  bad names the attribute whose access fails     *)
(* during the call ("none": no failure), perr the error of the second      *)
(* pps_clks reading.  The result holds the new clock alignment state, the  *)
(* wall clock at return, whether the call threw, and the error of the      *)
(* second reading when both readings were compared.                        *)
(***************************************************************************)
HwTimeKeep(t, thrown) ==
    [state |-> m_clock_state, utc |-> m_utc_seconds_at_startup,
     count |-> m_clock_count_at_startup, since |-> m_holdover_since,
     since_t |-> m_holdover_since_t, now |-> t, thrown |-> thrown, drift |-> 0]

\* the first reading of pps_clks is kept as the clock count at startup
HwTimeStartup_FirstReading(bad, perr) ==
    IF bad \in {"gpsdo_locked", "pps_loss_of_signal"} THEN HwTimeKeep(now, TRUE)
    ELSE IF hw.gpsdo_locked = 1 /\ hw.pps_loss_of_signal = 0 THEN
        LET t1 == <<now[1] + 1, MARGIN_TICKS>>
            t2 == <<now[1] + 2, MARGIN_TICKS>>
            pps_clks == HwPpsClks(t1)
            pps_clks2 == ClkAdd(HwPpsClks(t2), <<0, perr>>)
        IN  IF bad = "pps_clks" THEN HwTimeKeep(t1, TRUE)
            ELSE IF bad = "pps_clks2" THEN HwTimeKeep(t2, TRUE)
            ELSE IF ClkAdd(pps_clks, <<0, DSP_CLOCK>>) # pps_clks2 THEN
                [HwTimeKeep(t2, TRUE) EXCEPT !.drift = perr]
            ELSE [state |-> "Normal", utc |-> t2[1], count |-> pps_clks,
                  since |-> HOLDOVER_NONE, since_t |-> 0, now |-> t2, thrown |-> FALSE,
                  drift |-> perr]
    ELSE HwTimeKeep(now, FALSE)

\* case DexterClockState::Startup, lines 213-285
HwTimeStartup(bad, perr) ==
    IF bad \in {"gpsdo_locked", "pps_loss_of_signal"} THEN HwTimeKeep(now, TRUE)
    ELSE IF hw.gpsdo_locked = 1 /\ hw.pps_loss_of_signal = 0 THEN
        LET t1 == <<now[1] + 1, MARGIN_TICKS>>
            t2 == <<now[1] + 2, MARGIN_TICKS>>
            pps_clks == HwPpsClks(t1)
            pps_clks2 == ClkAdd(HwPpsClks(t2), <<0, perr>>)
        IN  IF bad = "pps_clks" THEN HwTimeKeep(t1, TRUE)
            ELSE IF bad = "pps_clks2" THEN HwTimeKeep(t2, TRUE)
            ELSE IF ClkAdd(pps_clks, <<0, DSP_CLOCK>>) # pps_clks2 THEN
                [HwTimeKeep(t2, TRUE) EXCEPT !.drift = perr]
            ELSE [state |-> "Normal", utc |-> t2[1], count |-> pps_clks2,
                  since |-> HOLDOVER_NONE, since_t |-> 0, now |-> t2, thrown |-> FALSE,
                  drift |-> perr]
    ELSE HwTimeKeep(now, FALSE)

\* the loss of the PPS starts the holdover without recording when
HwTimeNormal_NoMarker(bad) ==
    IF bad = "pps_loss_of_signal" THEN HwTimeKeep(now, TRUE)
    ELSE IF hw.pps_loss_of_signal = 1 THEN
        [state |-> "Holdover", utc |-> m_utc_seconds_at_startup,
         count |-> m_clock_count_at_startup, since |-> now, since_t |-> m_holdover_since_t,
         now |-> now, thrown |-> FALSE, drift |-> 0]
    ELSE HwTimeKeep(now, FALSE)

\* case DexterClockState::Normal, lines 286-301
HwTimeNormal(bad) ==
    IF bad = "pps_loss_of_signal" THEN HwTimeKeep(now, TRUE)
    ELSE IF hw.pps_loss_of_signal = 1 THEN
        [state |-> "Holdover", utc |-> m_utc_seconds_at_startup,
         count |-> m_clock_count_at_startup, since |-> now, since_t |-> now[1],
         now |-> now, thrown |-> FALSE, drift |-> 0]
    ELSE HwTimeKeep(now, FALSE)

\* a PPS that returns during holdover leads straight back to Normal
HwTimeHoldover_ToNormal(bad) ==
    IF bad = "pps_loss_of_signal" THEN HwTimeKeep(now, TRUE)
    ELSE IF hw.pps_loss_of_signal = 0 THEN
        [state |-> "Normal", utc |-> m_utc_seconds_at_startup,
         count |-> m_clock_count_at_startup, since |-> HOLDOVER_NONE, since_t |-> 0,
         now |-> now, thrown |-> FALSE, drift |-> 0]
    ELSE IF ElapsedGt(now, m_holdover_since, m_config.maxGPSHoldoverTime) THEN
        [state |-> "Startup", utc |-> 0, count |-> <<0, 0>>,
         since |-> HOLDOVER_NONE, since_t |-> 0, now |-> now, thrown |-> FALSE, drift |-> 0]
    ELSE HwTimeKeep(now, FALSE)

\* the alignment reference survives the end of the holdover
HwTimeHoldover_KeepsAlignment(bad) ==
    IF bad = "pps_loss_of_signal" THEN HwTimeKeep(now, TRUE)
    ELSE IF ElapsedGt(now, m_holdover_since, m_config.maxGPSHoldoverTime)
            \/ hw.pps_loss_of_signal = 0 THEN
        [state |-> "Startup", utc |-> m_utc_seconds_at_startup,
         count |-> m_clock_count_at_startup,
         since |-> HOLDOVER_NONE, since_t |-> 0, now |-> now, thrown |-> FALSE, drift |-> 0]
    ELSE HwTimeKeep(now, FALSE)

\* case DexterClockState::Holdover, lines 302-323
HwTimeHoldover(bad) ==
    IF bad = "pps_loss_of_signal" THEN HwTimeKeep(now, TRUE)
    ELSE IF ElapsedGt(now, m_holdover_since, m_config.maxGPSHoldoverTime)
            \/ hw.pps_loss_of_signal = 0 THEN
        [state |-> "Startup", utc |-> 0, count |-> <<0, 0>>,
         since |-> HOLDOVER_NONE, since_t |-> 0, now |-> now, thrown |-> FALSE, drift |-> 0]
    ELSE HwTimeKeep(now, FALSE)

handle_hw_time(bad, perr) ==
    CASE m_clock_state = "Startup" -> HwTimeStartup(bad, perr)
      [] m_clock_state = "Normal" -> HwTimeNormal(bad)
      [] m_clock_state = "Holdover" -> HwTimeHoldover(bad)

(***************************************************************************)
(* Dexter::is_clk_source_ok: the new alignment state, the number of calls  *)
(* of handle_hw_time and the value returned ("throw" when it threw).       *)
(***************************************************************************)
\* the state is tested before the state machine is advanced
is_clk_source_ok_StaleState(bad, perr) ==
    IF m_config.enableSync THEN
        LET r == handle_hw_time(bad, perr)
        IN  [hwtime |-> r, ticks |-> 1,
             ret |-> IF r.thrown THEN "throw"
                     ELSE IF m_clock_state # "Startup" THEN "true" ELSE "false"]
    ELSE [hwtime |-> HwTimeKeep(now, FALSE), ticks |-> 0, ret |-> "true"]

is_clk_source_ok(bad, perr) ==
    IF m_config.enableSync THEN
        LET r == handle_hw_time(bad, perr)
        IN  [hwtime |-> r, ticks |-> 1,
             ret |-> IF r.thrown THEN "throw" ELSE IF r.state # "Startup" THEN "true" ELSE "false"]
    ELSE [hwtime |-> HwTimeKeep(now, FALSE), ticks |-> 0, ret |-> "true"]


(***************************************************************************)
(* Dexter::transmit_frame.  The driver's channel state is threaded through *)
(* the statements of the call as a record: up = m_channel_is_up, refresh = *)
(* m_require_timestamp_refresh, st = "run" while the call is executing,    *)
(* "return" after an early return, "throw" after an exception, and log =   *)
(* the hardware accesses made so far, in order.                            *)
(***************************************************************************)
TxEntry == [up |-> m_channel_is_up, refresh |-> m_require_timestamp_refresh, hw |-> hw,
            late |-> num_late, frames |-> num_frames_modulated, prev_underflows |-> prev_underflows,
            log |-> <<>>, st |-> "run"]

LogEntry(e, v) == [e |-> e, v |-> v]

channel_up(s, bad) ==
    [s EXCEPT !.hw.gain0 = IF bad = "gain0" THEN @ ELSE m_config.txgain,
              !.up = TRUE,
              !.log = Append(@, LogEntry(IF bad = "gain0" THEN "gain0_failed" ELSE "gain0",
                                         <<m_config.txgain, 0>>))]

channel_down(s, bad) ==
    [s EXCEPT !.hw.gain0 = IF bad = "gain0" THEN @ ELSE 0,
              !.hw.stream0_start_clks = IF bad = "stream0_start_clks" THEN @ ELSE <<0, 0>>,
              !.up = FALSE,
              !.log = @ \o <<LogEntry(IF bad = "gain0" THEN "gain0_failed" ELSE "gain0", <<0, 0>>),
                             LogEntry(IF bad = "stream0_start_clks" THEN "start_clks_failed"
                                      ELSE "start_clks", <<0, 0>>)>>]

\* the clock count at startup is left out of the sum
FrameStartClocks_NoStartupCount(frame) ==
    ClkNorm(frame.sec - m_utc_seconds_at_startup, frame.pps * TIMESTAMP_PPS_PER_DSP_CLOCKS)

\* frame_start_clocks, line 669-673: 64 bit sum of the three terms
FrameStartClocks(frame) ==
    ClkNorm((frame.sec - m_utc_seconds_at_startup) + m_clock_count_at_startup[1],
            m_clock_count_at_startup[2] + frame.pps * TIMESTAMP_PPS_PER_DSP_CLOCKS)

\* frame_timestamp::offset_to_system_time() < lim ticks
OffsetToSystemTimeLt(frame, lim) == TimeDiffLt(<<frame.sec, frame.pps>>, now, lim)

\* a frame handed over in state Startup is counted as late
TxArm_StartupCounted(s, frame, bad) ==
    LET require_timestamped_tx == m_config.enableSync /\ frame.valid
    IN  IF s.up THEN s
        ELSE IF ~require_timestamped_tx THEN channel_up(s, bad)
        ELSE IF m_clock_state = "Startup" THEN [s EXCEPT !.late = @ + 1, !.st = "return"]
        ELSE IF bad = "clks" THEN [s EXCEPT !.st = "throw"]
        ELSE IF OffsetToSystemTimeLt(frame, MARGIN_TICKS) THEN
            [s EXCEPT !.late = @ + 1, !.st = "return"]
        ELSE IF bad = "stream0_start_clks" THEN
            [s EXCEPT !.late = @ + 1, !.st = "return",
                      !.log = Append(@, LogEntry("start_clks_failed", FrameStartClocks(frame)))]
        ELSE channel_up([s EXCEPT !.hw.stream0_start_clks = FrameStartClocks(frame),
                                  !.refresh = FALSE,
                                  !.log = Append(@, LogEntry("start_clks", FrameStartClocks(frame)))],
                        bad)

\* a late frame is dropped without being counted
TxArm_LateUncounted(s, frame, bad) ==
    LET require_timestamped_tx == m_config.enableSync /\ frame.valid
    IN  IF s.up THEN s
        ELSE IF ~require_timestamped_tx THEN channel_up(s, bad)
        ELSE IF m_clock_state = "Startup" THEN [s EXCEPT !.st = "return"]
        ELSE IF bad = "clks" THEN [s EXCEPT !.st = "throw"]
        ELSE IF OffsetToSystemTimeLt(frame, MARGIN_TICKS) THEN
            [s EXCEPT !.st = "return"]
        ELSE IF bad = "stream0_start_clks" THEN
            [s EXCEPT !.late = @ + 1, !.st = "return",
                      !.log = Append(@, LogEntry("start_clks_failed", FrameStartClocks(frame)))]
        ELSE channel_up([s EXCEPT !.hw.stream0_start_clks = FrameStartClocks(frame),
                                  !.refresh = FALSE,
                                  !.log = Append(@, LogEntry("start_clks", FrameStartClocks(frame)))],
                        bad)

\* lines 661-709
TxArm(s, frame, bad) ==
    LET require_timestamped_tx == m_config.enableSync /\ frame.valid
    IN  IF s.up THEN s
        ELSE IF ~require_timestamped_tx THEN channel_up(s, bad)
        ELSE IF m_clock_state = "Startup" THEN [s EXCEPT !.st = "return"]
        ELSE IF bad = "clks" THEN [s EXCEPT !.st = "throw"]
        ELSE IF OffsetToSystemTimeLt(frame, MARGIN_TICKS) THEN
            [s EXCEPT !.late = @ + 1, !.st = "return"]
        ELSE IF bad = "stream0_start_clks" THEN
            [s EXCEPT !.late = @ + 1, !.st = "return",
                      !.log = Append(@, LogEntry("start_clks_failed", FrameStartClocks(frame)))]
        ELSE channel_up([s EXCEPT !.hw.stream0_start_clks = FrameStartClocks(frame),
                                  !.refresh = FALSE,
                                  !.log = Append(@, LogEntry("start_clks", FrameStartClocks(frame)))],
                        bad)

\* the channel is brought down and the refresh flag stays set
TxRefresh_FlagKept(s, bad) ==
    IF s.st = "run" /\ s.refresh THEN channel_down(s, bad) ELSE s

\* lines 711-715
TxRefresh(s, bad) ==
    IF s.st = "run" /\ s.refresh THEN [channel_down(s, bad) EXCEPT !.refresh = FALSE] ELSE s

\* a failed push brings the channel down and the loop goes on
TxPushHalf_NoBreak(s, frame, i, bad) ==
    IF s.st # "run" THEN s
    ELSE IF bad = <<"push0", "push1">>[i + 1] THEN
        channel_down([s EXCEPT !.log = Append(@, LogEntry("push_failed", <<frame.id, i>>))], bad)
    ELSE [s EXCEPT !.log = Append(@, LogEntry("push", <<frame.id, i>>))]

\* one iteration of the loop of lines 722-736; a failed push ends the loop
TxPushHalf(s, frame, i, bad) ==
    IF s.st # "run" THEN s
    ELSE IF bad = <<"push0", "push1">>[i + 1] THEN
        [channel_down([s EXCEPT !.log = Append(@, LogEntry("push_failed", <<frame.id, i>>))], bad)
            EXCEPT !.st = "break"]
    ELSE [s EXCEPT !.log = Append(@, LogEntry("push", <<frame.id, i>>))]

\* the frames counter is left alone
TxPush_NotCounted(s, frame, bad) ==
    IF s.st = "run" /\ s.up THEN
        LET s1 == TxPushHalf(TxPushHalf(s, frame, 0, bad), frame, 1, bad)
        IN  [s1 EXCEPT !.st = "run"]
    ELSE s

\* lines 721-738
TxPush(s, frame, bad) ==
    IF s.st = "run" /\ s.up THEN
        LET s1 == TxPushHalf(TxPushHalf(s, frame, 0, bad), frame, 1, bad)
        IN  [s1 EXCEPT !.frames = @ + 1, !.st = "run"]
    ELSE s

\* lines 740-750
TxUnderflows(s) ==
    IF s.st = "run" THEN [s EXCEPT !.prev_underflows = underflows] ELSE s

\* the frame is pushed before the pending refresh is looked at
transmit_frame_PushBeforeRefresh(frame, bad) ==
    IF frame.buf # frame_len_bytes THEN [TxEntry EXCEPT !.st = "throw"]
    ELSE TxUnderflows(TxRefresh(TxPush(TxArm(TxEntry, frame, bad), frame, bad), bad))

\* the length of the buffer is tested after the channel was armed
transmit_frame_SizeCheckedLate(frame, bad) ==
    IF frame.buf # frame_len_bytes THEN [TxArm(TxEntry, frame, bad) EXCEPT !.st = "throw"]
    ELSE TxUnderflows(TxPush(TxRefresh(TxArm(TxEntry, frame, bad), bad), frame, bad))

transmit_frame(frame, bad) ==
    IF frame.buf # frame_len_bytes THEN [TxEntry EXCEPT !.st = "throw"]
    ELSE TxUnderflows(TxPush(TxRefresh(TxArm(TxEntry, frame, bad), bad), frame, bad))

\* the call wrote the start time of a frame to stream0_start_clks
Armed(log) ==
    \E i \in 1..Len(log) : log[i].e = "start_clks" /\ log[i].v # <<0, 0>>

\* the alignment reference of the clock state machine, and the value that
\* stands for a channel that is down or was brought up without a start time
AlignmentReference == <<m_utc_seconds_at_startup, m_clock_count_at_startup>>

NotArmed == <<0, <<0, 0>>>>

\* both halves of the frame are in the DMA ring
Pushed(log, id) ==
    /\ \E i \in 1..Len(log) : log[i] = LogEntry("push", <<id, 0>>)
    /\ \E i \in 1..Len(log) : log[i] = LogEntry("push", <<id, 1>>)


(***************************************************************************)
(* Dexter::get_real_secs as a pair <<seconds, DSP clocks>>, when the clks  *)
(* attribute can be read.                                                  *)
(***************************************************************************)
\* the sum is formed in state Startup too
get_real_secs_StartupComputed ==
    LET d == ClkSub(HwClks(now), m_clock_count_at_startup)
    IN  <<m_utc_seconds_at_startup + d[1], d[2]>>

get_real_secs ==
    IF m_clock_state = "Startup" THEN <<0, 0>>
    ELSE LET d == ClkSub(HwClks(now), m_clock_count_at_startup)
         IN  <<m_utc_seconds_at_startup + d[1], d[2]>>

\* frame_timestamp::get_real_secs in the same unit
TsRealSecs(frame) == <<frame.sec, frame.pps * TIMESTAMP_PPS_PER_DSP_CLOCKS>>

(***************************************************************************)
(* SDR::handle_frame after Gate 1 (lines 262-358): the new refresh flag,   *)
(* the new last_tx_* and what becomes of the frame.                        *)
(***************************************************************************)
\* the carry of the ticks into the seconds is left out
ExpectedTs_NoCarry(frame) ==
    LET sizeIn == frame.buf \div frame.sampleSize
        increment == (sizeIn * (PPS_TICKS \div 2048000)) \div (m_config.sampleRate \div 2048000)
    IN  <<last_tx.sec + (increment \div PPS_TICKS), last_tx.pps + (increment % PPS_TICKS)>>

\* lines 299-308; the quotient 16384000 / 2048000 is integral, so that the
\* product is taken after the division without changing the result
ExpectedTs(frame) ==
    LET sizeIn == frame.buf \div frame.sampleSize
        increment == (sizeIn * (PPS_TICKS \div 2048000)) \div (m_config.sampleRate \div 2048000)
    IN  TimeNorm(last_tx.sec + (increment \div PPS_TICKS), last_tx.pps + (increment % PPS_TICKS))

\* lines 292-321: the timestamp is not the one expected after the last frame
TimestampIrregular(frame) ==
    m_config.enableSync /\ frame.valid /\ last_tx.init /\ ExpectedTs(frame) # <<frame.sec, frame.pps>>

\* a frame in the past is dropped without a refresh request
HandleTimestamp_PastNoRefresh(frame, bad) ==
    LET device_time == get_real_secs
        r1 == m_require_timestamp_refresh \/ frame.offset_changed
        r2 == r1 \/ (last_tx.init /\ ExpectedTs(frame) # <<frame.sec, frame.pps>>)
        last == [sec |-> frame.sec, pps |-> frame.pps, init |-> TRUE]
    IN  IF bad = "clks" THEN
            [refresh |-> m_require_timestamp_refresh, last |-> last_tx, fate |-> "throw"]
        ELSE IF ~frame.valid THEN
            [refresh |-> m_require_timestamp_refresh, last |-> last_tx, fate |-> "incomplete"]
        ELSE IF PairLt(TsRealSecs(frame), device_time) THEN
            [refresh |-> r2, last |-> last, fate |-> "past"]
        ELSE IF PairLt(<<device_time[1] + TIMESTAMP_ABORT_FUTURE, device_time[2]>>, TsRealSecs(frame)) THEN
            [refresh |-> r2, last |-> last, fate |-> "future"]
        ELSE [refresh |-> r2, last |-> last, fate |-> "transmit"]

\* Gate 3, lines 269-352
HandleTimestamp(frame, bad) ==
    LET device_time == get_real_secs
        r1 == m_require_timestamp_refresh \/ frame.offset_changed
        r2 == r1 \/ (last_tx.init /\ ExpectedTs(frame) # <<frame.sec, frame.pps>>)
        last == [sec |-> frame.sec, pps |-> frame.pps, init |-> TRUE]
    IN  IF bad = "clks" THEN
            [refresh |-> m_require_timestamp_refresh, last |-> last_tx, fate |-> "throw"]
        ELSE IF ~frame.valid THEN
            [refresh |-> m_require_timestamp_refresh, last |-> last_tx, fate |-> "incomplete"]
        ELSE IF PairLt(TsRealSecs(frame), device_time) THEN
            [refresh |-> TRUE, last |-> last, fate |-> "past"]
        ELSE IF PairLt(<<device_time[1] + TIMESTAMP_ABORT_FUTURE, device_time[2]>>, TsRealSecs(frame)) THEN
            [refresh |-> r2, last |-> last, fate |-> "future"]
        ELSE [refresh |-> r2, last |-> last, fate |-> "transmit"]

\* a frame dropped for its missing timestamp requests a refresh
handle_frame_checks_Gate2Refresh(frame, bad) ==
    IF m_config.enableSync /\ m_config.muteNoTimestamps /\ ~frame.valid THEN
        [refresh |-> TRUE, last |-> last_tx, fate |-> "no_timestamp"]
    ELSE
        LET g3 == IF m_config.enableSync /\ frame.valid THEN HandleTimestamp(frame, bad)
                  ELSE [refresh |-> m_require_timestamp_refresh, last |-> last_tx, fate |-> "transmit"]
        IN  IF g3.fate = "transmit" /\ m_config.muting THEN [g3 EXCEPT !.refresh = TRUE, !.fate = "muted"]
            ELSE g3

\* a muted frame is dropped without a refresh request
handle_frame_checks_MuteNoRefresh(frame, bad) ==
    IF m_config.enableSync /\ m_config.muteNoTimestamps /\ ~frame.valid THEN
        [refresh |-> m_require_timestamp_refresh, last |-> last_tx, fate |-> "no_timestamp"]
    ELSE
        LET g3 == IF m_config.enableSync /\ frame.valid THEN HandleTimestamp(frame, bad)
                  ELSE [refresh |-> m_require_timestamp_refresh, last |-> last_tx, fate |-> "transmit"]
        IN  IF g3.fate = "transmit" /\ m_config.muting THEN [g3 EXCEPT !.fate = "muted"]
            ELSE g3

handle_frame_checks(frame, bad) ==
    IF m_config.enableSync /\ m_config.muteNoTimestamps /\ ~frame.valid THEN
        [refresh |-> m_require_timestamp_refresh, last |-> last_tx, fate |-> "no_timestamp"]
    ELSE
        LET g3 == IF m_config.enableSync /\ frame.valid THEN HandleTimestamp(frame, bad)
                  ELSE [refresh |-> m_require_timestamp_refresh, last |-> last_tx, fate |-> "transmit"]
        IN  IF g3.fate = "transmit" /\ m_config.muting THEN [g3 EXCEPT !.refresh = TRUE, !.fate = "muted"]
            ELSE g3

(***************************************************************************)
(* The remote control.  parse_channel and convert_frequency_to_channel     *)
(* (Utils) map the labels of the DAB channel table to frequencies in Hz    *)
(* and back; three rows of the table are kept.  A call threads the         *)
(* configuration and the hardware attributes through its statements as a   *)
(* record, with the hardware accesses made so far and the outcome: "ok" or *)
(* "ParameterError".                                                       *)
(***************************************************************************)
ChannelTable == ("5A" :> 174928000) @@ ("12C" :> 227360000) @@ ("13F" :> 239200000)

parse_channel(chan) ==
    IF chan \in DOMAIN ChannelTable THEN [thrown |-> FALSE, frequency |-> ChannelTable[chan]]
    ELSE [thrown |-> TRUE, frequency |-> 0]

convert_frequency_to_channel(frequency) ==
    IF \E c \in DOMAIN ChannelTable : ChannelTable[c] = frequency
    THEN [has_value |-> TRUE,
          channel |-> CHOOSE c \in DOMAIN ChannelTable : ChannelTable[c] = frequency]
    ELSE [has_value |-> FALSE, channel |-> "none"]

RcEntry == [config |-> m_config, hw |-> hw, log |-> <<>>, ret |-> "ok"]

\* Dexter::tune, lines 327-342: failures are logged and ignored
tune(s, lo_offset, frequency, bad) ==
    [s EXCEPT !.hw.center_frequency = IF bad = "center_frequency" THEN @ ELSE frequency,
              !.hw.frequency0 = IF bad = "frequency0" THEN @ ELSE lo_offset,
              !.log = @ \o <<LogEntry(IF bad = "center_frequency" THEN "center_frequency_failed"
                                      ELSE "center_frequency", <<frequency, 0>>),
                             LogEntry(IF bad = "frequency0" THEN "frequency0_failed"
                                      ELSE "frequency0", <<lo_offset, 0>>)>>]

\* the value read back is not stored
set_txgain_NoReadback(s, txgain, bad) ==
    LET wfail == bad \in {"gain0", "gain0_io"}
        w == [s EXCEPT !.hw.gain0 = IF wfail THEN @ ELSE txgain,
                       !.log = Append(@, LogEntry(IF wfail THEN "gain0_failed" ELSE "gain0",
                                                  <<txgain, 0>>))]
    IN  IF bad \in {"gain0_read", "gain0_io"}
        THEN [w EXCEPT !.log = Append(@, LogEntry("gain0_read_failed", <<0, 0>>))]
        ELSE [w EXCEPT !.log = Append(@, LogEntry("gain0_read", <<w.hw.gain0, 0>>))]

\* Dexter::set_txgain, lines 363-377.  bad = "gain0": the write fails;
\* "gain0_read": the read fails; "gain0_io": both fail
set_txgain(s, txgain, bad) ==
    LET wfail == bad \in {"gain0", "gain0_io"}
        w == [s EXCEPT !.hw.gain0 = IF wfail THEN @ ELSE txgain,
                       !.log = Append(@, LogEntry(IF wfail THEN "gain0_failed" ELSE "gain0",
                                                  <<txgain, 0>>))]
    IN  IF bad \in {"gain0_read", "gain0_io"}
        THEN [w EXCEPT !.log = Append(@, LogEntry("gain0_read_failed", <<0, 0>>))]
        ELSE [w EXCEPT !.config.txgain = w.hw.gain0,
                       !.log = Append(@, LogEntry("gain0_read", <<w.hw.gain0, 0>>))]

\* the frequency is stored before the channel is looked up
set_parameter_ChannelStored(parameter, value, bad) ==
    CASE parameter = "txgain" -> set_txgain([RcEntry EXCEPT !.config.txgain = value], value, bad)
      [] parameter = "rxgain" -> [RcEntry EXCEPT !.config.rxgain = value]
      [] parameter = "bandwidth" -> [RcEntry EXCEPT !.config.bandwidth = value]
      [] parameter = "freq" ->
            tune([RcEntry EXCEPT !.config.frequency = value], m_config.lo_offset, value, bad)
      [] parameter = "channel" ->
            LET f == parse_channel(value)
            IN  IF f.thrown
                THEN [RcEntry EXCEPT !.config.frequency = f.frequency, !.ret = "ParameterError"]
                ELSE tune([RcEntry EXCEPT !.config.frequency = f.frequency],
                          m_config.lo_offset, f.frequency, bad)
      [] parameter = "muting" -> [RcEntry EXCEPT !.config.muting = value > 0]
      [] parameter = "synchronous" -> [RcEntry EXCEPT !.config.enableSync = value > 0]
      [] parameter = "max_gps_holdover_time" ->
            [RcEntry EXCEPT !.config.maxGPSHoldoverTime = value]
      [] OTHER -> [RcEntry EXCEPT !.ret = "ParameterError"]

\* SDR::set_parameter, lines 366-415, for a value that parses
set_parameter(parameter, value, bad) ==
    CASE parameter = "txgain" -> set_txgain([RcEntry EXCEPT !.config.txgain = value], value, bad)
      [] parameter = "rxgain" -> [RcEntry EXCEPT !.config.rxgain = value]
      [] parameter = "bandwidth" -> [RcEntry EXCEPT !.config.bandwidth = value]
      [] parameter = "freq" ->
            tune([RcEntry EXCEPT !.config.frequency = value], m_config.lo_offset, value, bad)
      [] parameter = "channel" ->
            LET f == parse_channel(value)
            IN  IF f.thrown THEN [RcEntry EXCEPT !.ret = "ParameterError"]
                ELSE tune([RcEntry EXCEPT !.config.frequency = f.frequency],
                          m_config.lo_offset, f.frequency, bad)
      [] parameter = "muting" -> [RcEntry EXCEPT !.config.muting = value > 0]
      [] parameter = "synchronous" -> [RcEntry EXCEPT !.config.enableSync = value > 0]
      [] parameter = "max_gps_holdover_time" ->
            [RcEntry EXCEPT !.config.maxGPSHoldoverTime = value]
      [] OTHER -> [RcEntry EXCEPT !.ret = "ParameterError"]

(***************************************************************************)
(* Dexter::get_run_statistics.  The readings of the sensor files are the   *)
(* inputs of the call: a reading is the number in the file in thousandths  *)
(* (the file of a 3.3 holds 3300), or Unreadable when the file cannot be   *)
(* opened.  sensors.in0 .. in6 are the hwmon files in0_input .. in6_input, *)
(* sensors.tfpga is (in_temp0_raw + in_temp0_offset) * in_temp0_scale of   *)
(* the xadc device and sensors.temp1 the hwmon file temp1_input.           *)
(***************************************************************************)
Unreadable == -1

\* VMINFACT * nominal < reading < VMAXFACT * nominal, nominal in millivolts
InVoltageRange(reading, nominal) ==
    reading * 100 > 85 * nominal /\ reading * 100 < 115 * nominal

\* the value put into the map for a rail: the reading times the numerator of
\* the divider correction, or -1
RailStat(reading, numerator) == IF reading = Unreadable THEN -1 ELSE reading * numerator

\* lines 446-537 and 573: the assignments to voltage_ok in the order of the code
voltage_ok(sensors) ==
    LET v0 == TRUE
        v1 == IF sensors.in2 # Unreadable THEN InVoltageRange(sensors.in2, 3300) ELSE FALSE
        v2 == IF sensors.in1 # Unreadable THEN InVoltageRange(sensors.in1, 5400) ELSE FALSE
        v3 == IF sensors.in3 # Unreadable THEN v2 ELSE FALSE
        v4 == IF sensors.in0 # Unreadable THEN (v3 \/ sensors.in0 > 10000) ELSE FALSE
        v5 == IF sensors.in4 # Unreadable THEN InVoltageRange(sensors.in4, 3300) ELSE FALSE
        v6 == IF sensors.in5 # Unreadable THEN InVoltageRange(sensors.in5, 2500) ELSE FALSE
        v7 == IF sensors.in6 # Unreadable THEN v6 ELSE FALSE
    IN  v7

\* lines 447 and 539-571: temp_ok starts true and is or-ed with the comparison
temp_ok(sensors) ==
    IF sensors.tfpga # Unreadable THEN (TRUE \/ sensors.tfpga <= 85000) ELSE FALSE

\* lines 414-577.  The rails are in units of 1/36000000 V (vcc3v3, vcc5v4,
\* vcc3v3pll, vccocxo), 1/22000000 V (vfan, vcc_main_in) and 1/360000000 V
\* (vcc2v5io), tempfpga in 1/1000 degree
get_run_statistics(sensors) ==
    [underruns |-> underflows,
     latepackets |-> num_late,
     frames |-> num_frames_modulated,
     clks |-> HwClks(now),
     gpsdo_locked |-> hw.gpsdo_locked,
     pps_loss_of_signal |-> hw.pps_loss_of_signal,
     in_holdover_since |-> IF m_clock_state = "Holdover" THEN m_holdover_since_t ELSE 0,
     clock_state |-> CASE m_clock_state = "Startup" -> "startup"
                       [] m_clock_state = "Normal" -> "normal"
                       [] m_clock_state = "Holdover" -> "holdover",
     vcc3v3 |-> RailStat(sensors.in2, 54),
     vcc5v4 |-> RailStat(sensors.in1, 87),
     vfan |-> RailStat(sensors.in3, 582),
     vcc_main_in |-> RailStat(sensors.in0, 582),
     vcc3v3pll |-> RailStat(sensors.in4, 54),
     vcc2v5io |-> RailStat(sensors.in5, 407),
     vccocxo |-> RailStat(sensors.in6, 87),
     tempfpga |-> IF sensors.tfpga # Unreadable THEN sensors.tfpga ELSE -1,
     voltage_alarm |-> ~voltage_ok(sensors),
     temp_alarm |-> ~temp_ok(sensors)]

\* Dexter::get_temperature, lines 637-648
get_temperature(sensors) ==
    IF sensors.temp1 # Unreadable THEN [has_value |-> TRUE, temp |-> sensors.temp1]
    ELSE [has_value |-> FALSE, temp |-> 0]

\* transmission_frame_duration(dabMode) in ms, for DAB mode 1
FrameDurationMs == 96

\* SDR::get_parameter, lines 417-506
get_parameter(parameter, sensors) ==
    LET found(v) == [ret |-> "ok", out |-> v]
        failed == [ret |-> "ParameterError", out |-> <<>>]
    IN  CASE parameter = "txgain" -> found(m_config.txgain)
          [] parameter = "rxgain" -> found(m_config.rxgain)
          [] parameter = "bandwidth" -> found(m_config.bandwidth)
          [] parameter = "freq" -> found(m_config.frequency)
          [] parameter = "channel" ->
                LET maybe_freq == convert_frequency_to_channel(m_config.frequency)
                IN  IF maybe_freq.has_value THEN found(maybe_freq.channel) ELSE failed
          [] parameter = "muting" -> found(m_config.muting)
          [] parameter = "temp" ->
                LET temp == get_temperature(sensors)
                IN  IF temp.has_value THEN found(temp.temp) ELSE failed
          [] parameter = "queued_frames_ms" -> found(Len(m_queue) * FrameDurationMs)
          [] parameter = "synchronous" -> found(m_config.enableSync)
          [] parameter = "max_gps_holdover_time" -> found(m_config.maxGPSHoldoverTime)
          [] OTHER ->
                LET stat == get_run_statistics(sensors)
                IN  IF parameter \in DOMAIN stat THEN found(stat[parameter]) ELSE failed

\* SDR::get_all_values, lines 508-543: the entries added to the statistics map
get_all_values(sensors) ==
    LET maybe_freq == convert_frequency_to_channel(m_config.frequency)
        temp == get_temperature(sensors)
    IN  [txgain |-> m_config.txgain,
         rxgain |-> m_config.rxgain,
         freq |-> m_config.frequency,
         muting |-> m_config.muting,
         temp |-> IF temp.has_value THEN temp.temp ELSE Unreadable,
         channel |-> IF maybe_freq.has_value THEN maybe_freq.channel ELSE "none",
         queued_frames_ms |-> Len(m_queue) * FrameDurationMs,
         synchronous |-> m_config.enableSync,
         max_gps_holdover_time |-> m_config.maxGPSHoldoverTime]
        @@ get_run_statistics(sensors)

(***************************************************************************)
(* ThreadsafeQueue::push_overflow                                          *)
(***************************************************************************)
push_overflow(q, item, max) ==
    IF Len(q) < max THEN [q |-> Append(q, item), overflowed |-> FALSE, new_size |-> Len(q) + 1]
    ELSE [q |-> Append(Tail(q), item), overflowed |-> TRUE, new_size |-> Len(q)]

(***************************************************************************)
(* Actions.  Every action records itself in ev.                            *)
(***************************************************************************)
\* SDR::process
Process(size) ==
    /\ pcMod = "process"
    /\ IF ~m_running THEN
          /\ ev' = [NoEv EXCEPT !.op = "process", !.ret = "throw"]
          /\ UNCHANGED <<interleaver, m_frame, pcMod>>
       ELSE
          /\ m_frame' = size
          /\ pcMod' = "metadata"
          /\ ev' = [NoEv EXCEPT !.op = "process", !.ret = "ok", !.arg = size]
    /\ UNCHANGED <<interleaver, driver, dexter, channel, m_config, m_queue, m_running, num_queue_overflows,
                   last_tx, pc, cur, now, npushed, handed, acct>>

\* the two limits are exchanged
max_size_Swapped == IF m_config.enableSync THEN FRAMES_MAX_SIZE_UNSYNC ELSE FRAMES_MAX_SIZE_SYNC

\* line 190
max_size == IF m_config.enableSync THEN FRAMES_MAX_SIZE_SYNC ELSE FRAMES_MAX_SIZE_UNSYNC

\* the timestamp is taken from the last element
ProcessMetadata_LastElement(metadataIn) ==
    /\ pcMod = "metadata"
    /\ pcMod' = "process"
    /\ IF m_running THEN
          /\ m_frame' = 0
          /\ IF metadataIn = <<>> THEN
                /\ ev' = [NoEv EXCEPT !.op = "process_metadata", !.ret = "dropped"]
                /\ UNCHANGED <<interleaver, m_queue, num_queue_overflows, npushed>>
             ELSE
                LET ts == metadataIn[Len(metadataIn)]
                    frame == [id |-> npushed + 1, buf |-> m_frame, sampleSize |-> m_size,
                              valid |-> ts.valid, sec |-> ts.sec, pps |-> ts.pps,
                              offset_changed |-> ts.offset_changed]
                    r == push_overflow(m_queue, frame, max_size)
                IN  /\ m_queue' = r.q
                    /\ num_queue_overflows' = num_queue_overflows + (IF r.overflowed THEN 1 ELSE 0)
                    /\ npushed' = npushed + 1
                    /\ ev' = [NoEv EXCEPT !.op = "process_metadata", !.ret = "pushed", !.frame = frame,
                                          !.overflowed = r.overflowed, !.new_size = r.new_size]
       ELSE
          /\ ev' = [NoEv EXCEPT !.op = "process_metadata", !.ret = "ignored"]
          /\ UNCHANGED <<interleaver, m_frame, m_queue, num_queue_overflows, npushed>>
    /\ UNCHANGED <<interleaver, driver, dexter, channel, m_config, m_running, last_tx, pc, cur, now, handed, acct>>

\* SDR::process_metadata; metadataIn is a sequence of timestamps
ProcessMetadata(metadataIn) ==
    /\ pcMod = "metadata"
    /\ pcMod' = "process"
    /\ IF m_running THEN
          /\ m_frame' = 0
          /\ IF metadataIn = <<>> THEN
                /\ ev' = [NoEv EXCEPT !.op = "process_metadata", !.ret = "dropped"]
                /\ UNCHANGED <<interleaver, m_queue, num_queue_overflows, npushed>>
             ELSE
                LET ts == metadataIn[1]
                    frame == [id |-> npushed + 1, buf |-> m_frame, sampleSize |-> m_size,
                              valid |-> ts.valid, sec |-> ts.sec, pps |-> ts.pps,
                              offset_changed |-> ts.offset_changed]
                    r == push_overflow(m_queue, frame, max_size)
                IN  /\ m_queue' = r.q
                    /\ num_queue_overflows' = num_queue_overflows + (IF r.overflowed THEN 1 ELSE 0)
                    /\ npushed' = npushed + 1
                    /\ ev' = [NoEv EXCEPT !.op = "process_metadata", !.ret = "pushed", !.frame = frame,
                                          !.overflowed = r.overflowed, !.new_size = r.new_size]
       ELSE
          /\ ev' = [NoEv EXCEPT !.op = "process_metadata", !.ret = "ignored"]
          /\ UNCHANGED <<interleaver, m_frame, m_queue, num_queue_overflows, npushed>>
    /\ UNCHANGED <<interleaver, driver, dexter, channel, m_config, m_running, last_tx, pc, cur, now, handed, acct>>

\* the worker takes the frame queued last
WorkerPop_Last ==
    /\ pc = "wait"
    /\ m_running
    /\ m_queue # <<>>
    /\ cur' = m_queue[Len(m_queue)]
    /\ m_queue' = SubSeq(m_queue, 1, Len(m_queue) - 1)
    /\ pc' = "gate1"
    /\ ev' = [NoEv EXCEPT !.op = "pop", !.frame = m_queue[Len(m_queue)]]
    /\ UNCHANGED <<interleaver, driver, dexter, channel, m_config, m_frame, m_running, num_queue_overflows,
                   last_tx, pcMod, now, npushed, handed, acct>>

\* SDR::process_thread_entry, lines 216-220: the loop condition and the blocking pop
WorkerPop ==
    /\ pc = "wait"
    /\ m_running
    /\ m_queue # <<>>
    /\ cur' = Head(m_queue)
    /\ m_queue' = Tail(m_queue)
    /\ pc' = "gate1"
    /\ ev' = [NoEv EXCEPT !.op = "pop", !.frame = Head(m_queue)]
    /\ UNCHANGED <<interleaver, driver, dexter, channel, m_config, m_frame, m_running, num_queue_overflows,
                   last_tx, pcMod, now, npushed, handed, acct>>

\* the thread ends on a runtime_error and the running flag stays set
WorkerLeave_StillRunning(thrown) ==
    /\ cur' = NoFrame
    /\ pc' = IF thrown \/ ~m_running THEN "exit" ELSE "wait"
    /\ m_running' = m_running

\* the worker leaves handle_frame, normally or with a runtime_error, and
\* evaluates the loop condition (lines 216, 228-237): after an exception, or
\* when the running flag was cleared, the thread ends
WorkerLeave(thrown) ==
    /\ cur' = NoFrame
    /\ pc' = IF thrown \/ ~m_running THEN "exit" ELSE "wait"
    /\ m_running' = IF thrown THEN FALSE ELSE m_running

\* ThreadsafeQueue::trigger_wakeup has been called by the destructor
wakeup_requested_Never == FALSE

wakeup_requested == pcMod \in {"join", "done"}

\* lines 219-225: the worker, waiting in wait_and_pop, takes a frame after the
\* running flag was cleared and leaves the loop without handling it
WorkerPopStopped ==
    /\ pc = "wait"
    /\ ~m_running
    /\ m_queue # <<>>
    /\ m_queue' = Tail(m_queue)
    /\ cur' = NoFrame
    /\ pc' = "exit"
    /\ ev' = [NoEv EXCEPT !.op = "pop", !.ret = "break", !.frame = Head(m_queue)]
    /\ UNCHANGED <<interleaver, driver, dexter, channel, m_config, m_frame, m_running, num_queue_overflows,
                   last_tx, pcMod, now, npushed, handed, acct>>

\* lines 219 and 230: wait_and_pop throws ThreadsafeQueueWakeup
WorkerWakeup ==
    /\ pc = "wait"
    /\ wakeup_requested
    /\ pc' = "exit"
    /\ m_running' = FALSE
    /\ ev' = [NoEv EXCEPT !.op = "pop", !.ret = "wakeup"]
    /\ UNCHANGED <<interleaver, driver, dexter, channel, m_config, m_frame, m_queue, num_queue_overflows,
                   last_tx, pcMod, cur, now, npushed, handed, acct>>

\* SDR::~SDR, line 121
DtorStoreRunning ==
    /\ pcMod = "process"
    /\ pcMod' = "wakeup"
    /\ m_running' = FALSE
    /\ ev' = [NoEv EXCEPT !.op = "dtor", !.ret = "store"]
    /\ UNCHANGED <<interleaver, driver, dexter, channel, m_config, m_frame, m_queue, num_queue_overflows,
                   last_tx, pc, cur, now, npushed, handed, acct>>

\* SDR::~SDR, line 123
DtorTriggerWakeup ==
    /\ pcMod = "wakeup"
    /\ pcMod' = "join"
    /\ ev' = [NoEv EXCEPT !.op = "dtor", !.ret = "trigger_wakeup"]
    /\ UNCHANGED <<interleaver, driver, dexter, channel, sdr, m_config, pc, cur, now, npushed, handed, acct>>

\* SDR::~SDR, lines 125-127: join returns once the worker thread has ended
DtorJoin ==
    /\ pcMod = "join"
    /\ pc = "exit"
    /\ pcMod' = "done"
    /\ ev' = [NoEv EXCEPT !.op = "dtor", !.ret = "joined"]
    /\ UNCHANGED <<interleaver, driver, dexter, channel, sdr, m_config, pc, cur, now, npushed, handed, acct>>

\* SDR::handle_frame, Gate 1 (lines 258-260)
WorkerGate1(bad, perr) ==
    /\ pc = "gate1"
    /\ LET r == is_clk_source_ok(bad, perr)
       IN  /\ r.hwtime.now[1] <= MaxSec
           /\ m_clock_state' = r.hwtime.state
           /\ m_utc_seconds_at_startup' = r.hwtime.utc
           /\ m_clock_count_at_startup' = r.hwtime.count
           /\ m_holdover_since' = r.hwtime.since
           /\ m_holdover_since_t' = r.hwtime.since_t
           /\ now' = r.hwtime.now
           /\ handed' = cur.id
           /\ ev' = [NoEv EXCEPT !.op = "is_clk_source_ok", !.ret = r.ret,
                                 !.bad = IF r.ret = "throw" /\ r.hwtime.drift = 0 THEN bad ELSE "none",
                                 !.arg = r.hwtime.drift, !.from = m_clock_state,
                                 !.ticks = r.ticks, !.frame = cur]
           /\ IF r.ret = "true" THEN pc' = "checks" /\ UNCHANGED <<interleaver, cur, m_running>>
              ELSE WorkerLeave(r.ret = "throw")
    /\ UNCHANGED <<interleaver, driver, channel, m_config, m_frame, m_queue, num_queue_overflows, last_tx,
                   pcMod, npushed, acct>>

\* SDR::handle_frame, Gates 2 to 4 (lines 262-358)
WorkerChecks(bad) ==
    /\ pc = "checks"
    /\ LET r == handle_frame_checks(cur, bad)
       IN  /\ m_require_timestamp_refresh' = r.refresh
           /\ last_tx' = r.last
           /\ acct' = [acct EXCEPT !.muted = @ + (IF r.fate = "muted" THEN 1 ELSE 0),
                                   !.no_timestamp = @ + (IF r.fate = "no_timestamp" THEN 1 ELSE 0),
                                   !.past = @ + (IF r.fate = "past" THEN 1 ELSE 0)]
           /\ ev' = [NoEv EXCEPT !.op = "checks", !.ret = r.fate, !.bad = bad, !.frame = cur,
                                 !.arg = IF TimestampIrregular(cur) THEN 1 ELSE 0,
                                 !.out = IF m_config.enableSync /\ cur.valid /\ bad # "clks"
                                         THEN get_real_secs ELSE <<>>]
           /\ IF r.fate = "transmit" THEN pc' = "transmit" /\ UNCHANGED <<interleaver, cur, m_running>>
              ELSE WorkerLeave(r.fate \in {"throw", "future"})
    /\ UNCHANGED <<interleaver, driver, dexter, m_channel_is_up, num_late, num_frames_modulated, underflows,
                   prev_underflows, hw, m_config, m_frame, m_queue, num_queue_overflows,
                   pcMod, now, npushed, handed>>

\* SDR::handle_frame, line 360: Dexter::transmit_frame, which reads the
\* underflow count under m_attr_thread_mutex (lines 740-743)
WorkerTransmit(bad) ==
    /\ pc = "transmit"
    /\ m_attr_thread_mutex = "free"
    /\ LET s == transmit_frame(cur, bad)
       IN  /\ m_channel_is_up' = s.up
           /\ m_require_timestamp_refresh' = s.refresh
           /\ num_late' = s.late
           /\ num_frames_modulated' = s.frames
           /\ prev_underflows' = s.prev_underflows
           /\ hw' = s.hw
           /\ acct' = [acct EXCEPT !.transmitted = @ + (IF Pushed(s.log, cur.id) THEN 1 ELSE 0),
                                   !.armed = IF ~s.up THEN NotArmed
                                             ELSE IF Armed(s.log) THEN AlignmentReference
                                             ELSE @]
           /\ ev' = [NoEv EXCEPT !.op = "transmit_frame", !.ret = s.st, !.bad = bad,
                                 !.log = s.log, !.frame = cur]
           /\ WorkerLeave(s.st = "throw")
    /\ UNCHANGED <<interleaver, driver, dexter, underflows, m_config, m_frame, m_queue, num_queue_overflows,
                   last_tx, pcMod, now, npushed, handed>>

\* SDR::set_parameter; bad names the attribute access that fails during the call
SetParameter(parameter, value, bad) ==
    /\ LET s == set_parameter(parameter, value, bad)
       IN  /\ m_config' = s.config
           /\ hw' = s.hw
           /\ ev' = [NoEv EXCEPT !.op = "set_parameter", !.parameter = parameter, !.arg = value,
                                 !.bad = bad, !.ret = s.ret, !.log = s.log]
    /\ UNCHANGED <<interleaver, driver, dexter, m_channel_is_up, m_require_timestamp_refresh, num_late,
                   num_frames_modulated, underflows, prev_underflows, sdr,
                   pcMod, pc, cur, now, npushed, handed, acct>>

\* the clock state machine is advanced before the value is read
GetParameter_Ticking(parameter, sensors) ==
    /\ m_attr_thread_mutex = "free"
    /\ LET r == get_parameter(parameter, sensors)
           t == handle_hw_time("none", 0)
       IN  /\ t.now[1] <= MaxSec
           /\ m_clock_state' = t.state
           /\ m_utc_seconds_at_startup' = t.utc
           /\ m_clock_count_at_startup' = t.count
           /\ m_holdover_since' = t.since
           /\ m_holdover_since_t' = t.since_t
           /\ now' = t.now
           /\ ev' = [NoEv EXCEPT !.op = "get_parameter", !.parameter = parameter,
                                 !.ret = r.ret, !.out = r.out, !.arg = sensors]
    /\ UNCHANGED <<interleaver, driver, channel, sdr, m_config, pcMod, pc, cur, npushed, handed, acct>>

\* SDR::get_parameter; get_run_statistics takes m_attr_thread_mutex
GetParameter(parameter, sensors) ==
    /\ m_attr_thread_mutex = "free"
    /\ LET r == get_parameter(parameter, sensors)
       IN  ev' = [NoEv EXCEPT !.op = "get_parameter", !.parameter = parameter,
                              !.ret = r.ret, !.out = r.out, !.arg = sensors]
    /\ UNCHANGED <<interleaver, driver, dexter, channel, sdr, m_config, pcMod, pc, cur, now, npushed, handed, acct>>

\* SDR::get_all_values; get_run_statistics takes m_attr_thread_mutex
GetAllValues(sensors) ==
    /\ m_attr_thread_mutex = "free"
    /\ ev' = [NoEv EXCEPT !.op = "get_all_values", !.ret = "ok",
                          !.out = get_all_values(sensors), !.arg = sensors]
    /\ UNCHANGED <<interleaver, driver, dexter, channel, sdr, m_config, pcMod, pc, cur, now, npushed, handed, acct>>

\* Dexter::underflow_read_process, one iteration of the loop (lines 768-780)
UnderflowPoll(readable) ==
    /\ underflows' = IF readable /\ hw.buffer_underflows0 # underflows /\ hw.buffer_underflows0 # 0
                     THEN hw.buffer_underflows0 ELSE underflows
    /\ ev' = [NoEv EXCEPT !.op = "underflow_poll", !.ret = IF readable THEN "read" ELSE "failed"]
    /\ UNCHANGED <<interleaver, driver, dexter, m_channel_is_up, m_require_timestamp_refresh, num_late,
                   num_frames_modulated, prev_underflows, hw, sdr, m_config,
                   pcMod, pc, cur, now, npushed, handed, acct>>

\* the GPSDO and the PPS input change
HwChange(attr, value) ==
    /\ hw[attr] # value
    /\ hw' = [hw EXCEPT ![attr] = value]
    /\ ev' = [NoEv EXCEPT !.op = "hw", !.ret = attr, !.arg = value]
    /\ UNCHANGED <<interleaver, driver, dexter, m_channel_is_up, m_require_timestamp_refresh, num_late,
                   num_frames_modulated, underflows, prev_underflows, sdr, m_config,
                   pcMod, pc, cur, now, npushed, handed, acct>>

\* time passes
AdvanceTime(dt) ==
    /\ TimeAdd(now, dt)[1] <= MaxSec
    /\ now' = TimeAdd(now, dt)
    /\ ev' = [NoEv EXCEPT !.op = "time"]
    /\ UNCHANGED <<interleaver, driver, dexter, channel, sdr, m_config, pcMod, pc, cur, npushed, handed, acct>>


(***************************************************************************)
(* The state after the construction of the Dexter driver and of the SDR    *)
(* output stage, for a configuration and a state of the GPSDO.             *)
(***************************************************************************)
InitFrom(conf, hwattrs, owner) ==
    /\ m_clock_state = "Startup"
    /\ m_utc_seconds_at_startup = 0
    /\ m_clock_count_at_startup = <<0, 0>>
    /\ m_holdover_since = HOLDOVER_NONE
    /\ m_holdover_since_t = 0
    /\ m_channel_is_up = FALSE
    /\ m_require_timestamp_refresh = FALSE
    /\ num_late = 0
    /\ num_frames_modulated = 0
    /\ underflows = 0
    /\ prev_underflows = 0
    /\ hw = hwattrs
    /\ m_config = [conf EXCEPT !.muting = FALSE]
    /\ m_frame = 0
    /\ m_queue = <<>>
    /\ m_running = TRUE
    /\ num_queue_overflows = 0
    /\ last_tx = [sec |-> 0, pps |-> 0, init |-> FALSE]
    /\ pcMod = owner
    /\ poller = [pc |-> "loop", underflows_attr |-> 0, r |-> 0]
    /\ m_attr_thread_mutex = "free"
    /\ dexter_running = TRUE
    /\ m_ctx = "open"
    /\ pc = "wait"
    /\ cur = NoFrame
    /\ now = <<StartSec, 0>>
    /\ npushed = 0
    /\ handed = 0
    /\ acct = [transmitted |-> 0, muted |-> 0, no_timestamp |-> 0, past |-> 0,
               armed |-> NotArmed, late_polls |-> 0]
    /\ m_fixedPoint = FALSE
    /\ m_carriers = 0
    /\ m_indices = <<>>
    /\ pcFI = NoInterleaver
    /\ dataOut = [length |-> 0, data |-> <<>>]
    /\ ev = NoEv

InitWith(conf, locked, loss) ==
    InitFrom(conf,
             [gain0 |-> conf.txgain, stream0_start_clks |-> <<0, 0>>,
              gpsdo_locked |-> locked, pps_loss_of_signal |-> loss, buffer_underflows0 |-> 0,
              center_frequency |-> conf.frequency, frequency0 |-> conf.lo_offset],
             "process")

Conf(sync, muteNoTs, holdover) ==
    [sampleRate |-> 2048000, txgain |-> ConfTxGain, muting |-> FALSE, enableSync |-> sync,
     muteNoTimestamps |-> muteNoTs, maxGPSHoldoverTime |-> holdover,
     rxgain |-> 0, bandwidth |-> 0, frequency |-> ConfFrequency, lo_offset |-> 0]

\* a frame_timestamp
Ts(valid, sec, pps, changed) ==
    [valid |-> valid, sec |-> sec, pps |-> pps, offset_changed |-> changed]

\* a frame without timestamp
NoTs == Ts(FALSE, 0, 0, FALSE)

OneSecond == <<1, 0>>

(***************************************************************************)
(* SpecClock: the clock alignment state machine driven by the worker, with *)
(* frames that carry no timestamp, a GPSDO that locks and loses its PPS,   *)
(* and failing attribute reads.                                            *)
(***************************************************************************)
InitClock ==
    \E sync \in BOOLEAN, locked \in {0, 1} :
        InitWith(Conf(sync, FALSE, ConfHoldover), locked, 0)

ClockFaults == {"none", "pps_loss_of_signal", "pps_clks2"}

NextClock ==
    \/ (npushed < MaxPush /\ Process(frame_len_bytes))
    \/ ProcessMetadata(<<NoTs>>)
    \/ WorkerPop
    \/ \E bad \in ClockFaults, perr \in {0, PpsDrift} : WorkerGate1(bad, perr)
    \/ WorkerChecks("none")
    \/ WorkerTransmit("none")
    \/ \E v \in {0, 1} : HwChange("gpsdo_locked", v)
    \/ \E v \in {0, 1} : HwChange("pps_loss_of_signal", v)
    \/ AdvanceTime(OneSecond)

SpecClock == InitClock /\ [][NextClock]_vars


(***************************************************************************)
(* SpecQueue: the modulator fills the queue with frames without timestamp  *)
(* while the worker empties it and the remote control switches the         *)
(* `synchronous` parameter; the GPSDO is locked.                           *)
(***************************************************************************)
InitQueue ==
    \E sync \in BOOLEAN : InitWith(Conf(sync, FALSE, ConfHoldover), 1, 0)

NextQueue ==
    \/ (npushed < MaxQueuePush /\ Process(frame_len_bytes))
    \/ ProcessMetadata(<<NoTs>>)
    \/ WorkerPop
    \/ WorkerGate1("none", 0)
    \/ WorkerChecks("none")
    \/ WorkerTransmit("none")
    \/ \E v \in {0, 1} : SetParameter("synchronous", v, "none")

SpecQueue == InitQueue /\ [][NextQueue]_vars

(***************************************************************************)
(* SpecFill: the modulator hands over frames while the worker is not       *)
(* scheduled, until the queue overflows.                                   *)
(***************************************************************************)
NextFill ==
    \/ (npushed < MaxFill /\ Process(frame_len_bytes))
    \/ ProcessMetadata(<<NoTs>>)

SpecFill == InitQueue /\ [][NextFill]_vars

(***************************************************************************)
(* C1: the clock state changes only along Startup->Normal (on a tick that  *)
(* reads gpsdo_locked = 1 and pps_loss_of_signal = 0 and whose two         *)
(* pps_clks readings are DSP_CLOCK apart), Normal->Holdover (on a tick     *)
(* that reads pps_loss_of_signal = 1) and Holdover->Startup (on a tick     *)
(* where the time in holdover exceeds maxGPSHoldoverTime or                *)
(* pps_loss_of_signal reads 0).                                            *)
(***************************************************************************)
HoldoverTicks == (now[1] - m_holdover_since[1]) * PPS_TICKS + (now[2] - m_holdover_since[2])

C1_ClockEdges ==
    [][m_clock_state' # m_clock_state =>
        /\ ev'.op = "is_clk_source_ok"
        /\ ev'.ticks = 1
        /\ \/ /\ m_clock_state = "Startup" /\ m_clock_state' = "Normal"
              /\ hw.gpsdo_locked = 1 /\ hw.pps_loss_of_signal = 0
              /\ ev'.bad = "none" /\ ev'.arg = 0
           \/ /\ m_clock_state = "Normal" /\ m_clock_state' = "Holdover"
              /\ hw.pps_loss_of_signal = 1
           \/ /\ m_clock_state = "Holdover" /\ m_clock_state' = "Startup"
              /\ \/ HoldoverTicks > m_config.maxGPSHoldoverTime * PPS_TICKS
                 \/ hw.pps_loss_of_signal = 0]_vars

\* the PPS has returned during holdover and the tick has led to Startup
C1_Witness ==
    /\ ev.op = "is_clk_source_ok"
    /\ ev.from = "Holdover"
    /\ hw.pps_loss_of_signal = 0
    /\ m_clock_state = "Startup"


(***************************************************************************)
(* C2: PPS loss, holdover and recovery.  A tick in Normal that reads       *)
(* pps_loss_of_signal = 1 leads to Holdover; a tick in Holdover after more *)
(* than maxGPSHoldoverTime leads to Startup with the alignment reference   *)
(* and the holdover markers cleared; a tick in Startup with the GPSDO      *)
(* locked and the PPS present, whose alignment does not fail, leads to     *)
(* Normal.                                                                 *)
(***************************************************************************)
C2_HoldoverRecovery ==
    [][(ev'.op = "is_clk_source_ok" /\ ev'.ticks = 1 /\ ev'.ret # "throw") =>
        /\ (m_clock_state = "Normal" /\ hw.pps_loss_of_signal = 1)
              => m_clock_state' = "Holdover"
        /\ (m_clock_state = "Holdover"
              /\ HoldoverTicks > m_config.maxGPSHoldoverTime * PPS_TICKS)
              => /\ m_clock_state' = "Startup"
                 /\ m_utc_seconds_at_startup' = 0
                 /\ m_clock_count_at_startup' = <<0, 0>>
                 /\ m_holdover_since' = HOLDOVER_NONE
                 /\ m_holdover_since_t' = 0
        /\ (m_clock_state = "Startup" /\ hw.gpsdo_locked = 1 /\ hw.pps_loss_of_signal = 0)
              => m_clock_state' = "Normal"]_vars

\* the holdover has ended by its duration, the PPS still missing
C2_Witness ==
    /\ ev.op = "is_clk_source_ok"
    /\ ev.from = "Holdover"
    /\ hw.pps_loss_of_signal = 1
    /\ m_clock_state = "Startup"
    /\ m_utc_seconds_at_startup = 0

(***************************************************************************)
(* C3: is_clk_source_ok with enableSync advances the clock state machine   *)
(* by one tick and returns true exactly if the state after the tick is not *)
(* Startup; without enableSync it returns true and leaves the clock state  *)
(* and the alignment data alone.                                           *)
(***************************************************************************)
C3_IsClkSourceOk ==
    [][ev'.op = "is_clk_source_ok" =>
        IF m_config.enableSync
        THEN /\ ev'.ticks = 1
             /\ ev'.ret \in {"true", "false", "throw"}
             /\ ev'.ret = "true" => m_clock_state' # "Startup"
             /\ ev'.ret = "false" => m_clock_state' = "Startup"
        ELSE /\ ev'.ticks = 0
             /\ ev'.ret = "true"
             /\ UNCHANGED dexter]_vars

\* a call in synchronous mode has returned true in Holdover
C3_Witness ==
    /\ ev.op = "is_clk_source_ok"
    /\ ev.ticks = 1
    /\ ev.ret = "true"
    /\ m_clock_state = "Holdover"


(***************************************************************************)
(* Spec: frames with and without timestamps are handed to the driver while *)
(* the GPSDO is locked; attribute accesses and buffer pushes may fail, the *)
(* remote control switches `synchronous`, and the underflow poller runs.   *)
(***************************************************************************)
Init ==
    \E sync \in BOOLEAN : InitWith(Conf(sync, FALSE, ConfHoldover), 1, 0)

\* timestamps of the frames the modulator hands over: none, too close to the
\* system time, and one second ahead of it
TxStamps ==
    {NoTs} \cup
    {Ts(TRUE, t[1], t[2], ch) :
        t \in {TimeAdd(now, <<0, LateTicks>>), TimeAdd(now, OneSecond)}, ch \in BOOLEAN}

TxFaults == {"none", "clks", "stream0_start_clks", "gain0", "push0", "push1"}

Next ==
    \/ (npushed < MaxTxPush /\ Process(frame_len_bytes))
    \/ \E ts \in TxStamps : ProcessMetadata(<<ts>>)
    \/ WorkerPop
    \/ WorkerGate1("none", 0)
    \/ \E bad \in {"none", "clks"} : WorkerChecks(bad)
    \/ \E bad \in TxFaults : WorkerTransmit(bad)
    \/ \E v \in {0, 1} : SetParameter("synchronous", v, "none")
    \/ \E readable \in BOOLEAN : UnderflowPoll(readable)
    \/ HwChange("buffer_underflows0", 1)

Spec == Init /\ [][Next]_vars

(***************************************************************************)
(* SpecStream: a stream of timestamped frames in synchronous mode on a     *)
(* locked GPSDO.  Frame k of the stream is due k frame durations after     *)
(* StreamStart + StreamPhase, so that the second frame begins a new        *)
(* second; the modulator may shift a timestamp by one second, flag a       *)
(* changed offset, or send a timestamp far in the future.  Buffer pushes   *)
(* may fail, and the remote control switches `muting`.                     *)
(***************************************************************************)
\* the duration of one transmission frame in 1/16384000 s: 196608 samples
\* at 2048000 samples per second
FrameTicks == (frame_len_bytes \div m_size) * (PPS_TICKS \div 2048000)

\* the timestamp of frame k of the stream, shifted by jump seconds
TsStream(k, jump, ch) ==
    LET t == TimeNorm(StreamStart + jump, StreamPhase + k * FrameTicks)
    IN  Ts(TRUE, t[1], t[2], ch)

StreamStamps ==
    {TsStream(npushed + 1, jump, ch) : jump \in {0, 1}, ch \in BOOLEAN}
        \cup {TsStream(npushed + 1, FarJump, FALSE)}

InitStream == InitWith(Conf(TRUE, FALSE, ConfHoldover), 1, 0)

NextStream ==
    \/ (npushed < MaxStreamPush /\ Process(frame_len_bytes))
    \/ \E ts \in StreamStamps : ProcessMetadata(<<ts>>)
    \/ WorkerPop
    \/ WorkerGate1("none", 0)
    \/ WorkerChecks("none")
    \/ \E bad \in {"none", "push0", "push1"} : WorkerTransmit(bad)
    \/ \E v \in {0, 1} : SetParameter("muting", v, "none")

SpecStream == InitStream /\ [][NextStream]_vars

(***************************************************************************)
(* SpecSteady: synchronous operation in the steady state.  The timestamps  *)
(* of the stream advance by one frame duration, the GPSDO stays locked,    *)
(* every hardware access succeeds, the hardware reports no underflow and   *)
(* nobody mutes.                                                           *)
(***************************************************************************)
NextSteady ==
    \/ (npushed < MaxSteadyPush /\ Process(frame_len_bytes))
    \/ ProcessMetadata(<<TsStream(npushed + 1, 0, FALSE)>>)
    \/ WorkerPop
    \/ WorkerGate1("none", 0)
    \/ WorkerChecks("none")
    \/ WorkerTransmit("none")
    \/ UnderflowPoll(TRUE)

SpecSteady == InitStream /\ [][NextSteady]_vars

(***************************************************************************)
(* SpecMeta: the modulator hands over buffers of the right and of a wrong  *)
(* length, with metadata vectors of zero, one and two timestamps, while    *)
(* the worker transmits.                                                   *)
(***************************************************************************)
FrameLens == {frame_len_bytes, ShortFrameLen}

\* the metadata vectors: the timestamps of transmission frame k and of the
\* one after it, in both orders
MetaVecs ==
    LET first == TsStream(npushed + 1, 0, FALSE)
        second == TsStream(npushed + 2, 0, FALSE)
    IN  {<<>>, <<first>>, <<first, second>>, <<second, first>>}

NextMeta ==
    \/ (npushed < MaxMetaPush /\ \E size \in FrameLens : Process(size))
    \/ \E vec \in MetaVecs : ProcessMetadata(vec)
    \/ WorkerPop
    \/ WorkerGate1("none", 0)
    \/ WorkerChecks("none")
    \/ WorkerTransmit("none")

SpecMeta == InitQueue /\ [][NextMeta]_vars

(***************************************************************************)
(* SpecShutdown: the owner of the output stage destroys it while the       *)
(* worker waits for a frame or handles one.  Both threads are scheduled    *)
(* and the calls into the hardware return, hence the weak fairness.        *)
(***************************************************************************)
Worker ==
    \/ WorkerPop
    \/ WorkerPopStopped
    \/ WorkerWakeup
    \/ WorkerGate1("none", 0)
    \/ WorkerChecks("none")
    \/ WorkerTransmit("none")

Dtor == DtorStoreRunning \/ DtorTriggerWakeup \/ DtorJoin

NextShutdown ==
    \/ (npushed < MaxShutdownPush /\ Process(frame_len_bytes))
    \/ ProcessMetadata(<<NoTs>>)
    \/ Worker
    \/ Dtor

SpecShutdown ==
    InitQueue /\ [][NextShutdown]_vars /\ WF_vars(Worker) /\ WF_vars(DtorTriggerWakeup \/ DtorJoin)

(***************************************************************************)
(* SpecRC: the remote control sets and reads parameters of the output      *)
(* stage, by names that are settable, read-only or unknown, while the      *)
(* attribute accesses of the driver may fail.                              *)
(***************************************************************************)
\* the names set_parameter accepts
Settable ==
    {"txgain", "rxgain", "bandwidth", "freq", "channel", "muting", "synchronous",
     "max_gps_holdover_time"}

\* names that can be read but not set, and names that are not exported
NotSettable == {"temp", "underruns", "frames", "gain"}

\* every sensor file holds the value of a board in good health, in millivolts
\* and millidegrees
NominalSensors ==
    [in0 |-> 454000, in1 |-> 2234000, in2 |-> 2200000, in3 |-> 454000, in4 |-> 2200000,
     in5 |-> 2211000, in6 |-> 2234000, tfpga |-> 45000, temp1 |-> 40000]

\* no sensor file can be opened
NoSensors ==
    [in0 |-> Unreadable, in1 |-> Unreadable, in2 |-> Unreadable, in3 |-> Unreadable,
     in4 |-> Unreadable, in5 |-> Unreadable, in6 |-> Unreadable, tfpga |-> Unreadable,
     temp1 |-> Unreadable]

RcSensors == {NominalSensors, NoSensors}

\* the names the remote control reads
ReadNames ==
    Settable \cup NotSettable \cup {"queued_frames_ms"} \cup DOMAIN get_run_statistics(NominalSensors)

RcGains == {ConfTxGain, RcTxGain}

RcChannels == {"13F", "13G"}

InitRC == InitWith(Conf(FALSE, FALSE, ConfHoldover), 1, 0)

NextRC ==
    \/ \E g \in RcGains, bad \in {"none", "gain0", "gain0_read", "gain0_io"} :
            SetParameter("txgain", g, bad)
    \/ \E bad \in {"none", "center_frequency"} : SetParameter("freq", RcFrequency, bad)
    \/ \E c \in RcChannels : SetParameter("channel", c, "none")
    \/ \E p \in (Settable \ {"txgain", "freq", "channel"}) \cup NotSettable :
            SetParameter(p, 1, "none")
    \/ \E p \in ReadNames : GetParameter(p, NominalSensors)
    \/ GetParameter("temp", NoSensors)
    \/ \E sensors \in RcSensors : GetAllValues(sensors)

SpecRC == InitRC /\ [][NextRC]_vars

(***************************************************************************)
(* SpecMonitor: the remote control reads parameters and statistics and     *)
(* switches `synchronous` while the worker handles frames due at second    *)
(* MaxSec, the PPS comes and goes and time passes.                         *)
(***************************************************************************)
\* names read by the monitor: from the configuration, from the sensors, from
\* the queue, from the statistics of the driver, and one that is not exported
MonitorNames ==
    {"synchronous", "temp", "queued_frames_ms", "clock_state", "in_holdover_since",
     "remaining_holdover_s"}

NextMonitor ==
    \/ (npushed < MaxMonitorPush /\ Process(frame_len_bytes))
    \/ ProcessMetadata(<<Ts(TRUE, MaxSec, 0, FALSE)>>)
    \/ WorkerPop
    \/ WorkerGate1("none", 0)
    \/ \E bad \in {"none", "clks"} : WorkerChecks(bad)
    \/ WorkerTransmit("none")
    \/ \E v \in {0, 1} : HwChange("pps_loss_of_signal", v)
    \/ AdvanceTime(OneSecond)
    \/ \E v \in {0, 1} : SetParameter("synchronous", v, "none")
    \/ \E p \in MonitorNames : GetParameter(p, NominalSensors)
    \/ GetAllValues(NominalSensors)

SpecMonitor == InitQueue /\ [][NextMonitor]_vars

(***************************************************************************)
(* SpecGates: frames with and without timestamp are handled with           *)
(* muteNoTimestamps set or not, in and out of synchronous mode, while the  *)
(* PPS comes and goes.                                                     *)
(***************************************************************************)
InitGates ==
    \E sync \in BOOLEAN, muteNoTs \in BOOLEAN : InitWith(Conf(sync, muteNoTs, ConfHoldover), 1, 0)

NextGates ==
    \/ (npushed < MaxGatesPush /\ Process(frame_len_bytes))
    \/ \E ts \in {NoTs, TsStream(npushed + 1, 0, FALSE), TsStream(npushed + 1, 0, TRUE)} :
            ProcessMetadata(<<ts>>)
    \/ WorkerPop
    \/ WorkerGate1("none", 0)
    \/ WorkerChecks("none")
    \/ WorkerTransmit("none")
    \/ \E v \in {0, 1} : HwChange("pps_loss_of_signal", v)
    \/ \E v \in {0, 1} : SetParameter("synchronous", v, "none")

SpecGates == InitGates /\ [][NextGates]_vars

(***************************************************************************)
(* The construction of the Dexter driver.  The attribute accesses of the   *)
(* constructor are kept, in their order, in the log of the step.           *)
(***************************************************************************)
WrongSampleRate == 4096000
PreGain == 7
PreStartSeconds == 2
MaxCtorPush == 2

\* one step of the constructor: nothing after an exception; a failure
\* raises when it is fatal and is only logged otherwise
CtorStep(s, e, efailed, v, fails, fatal) ==
    IF s.st # "run" THEN s
    ELSE IF fails
         THEN [s EXCEPT !.log = Append(@, LogEntry(efailed, v)),
                        !.st = IF fatal THEN "throw" ELSE "run"]
         ELSE [s EXCEPT !.log = Append(@, LogEntry(e, v))]

Dexter_ctor_PollerFirst(conf, bad) ==
    LET s0 == [hw |-> hw, log |-> <<>>, st |-> "run"]
        s1 == CtorStep(s0, "dc0", "dc0_failed", <<0, 0>>, bad = "dc0", TRUE)
        s2 == CtorStep(s1, "dc1", "dc1_failed", <<0, 0>>, bad = "dc1", TRUE)
        s3 == IF s2.st = "run" /\ conf.sampleRate # 2048000
              THEN [s2 EXCEPT !.st = "throw"] ELSE s2
        s4 == IF s3.st = "run" THEN tune(s3, conf.lo_offset, conf.frequency, bad) ELSE s3
        g0 == CtorStep(s4, "gain0", "gain0_failed", <<0, 0>>, bad = "gain0_zero", TRUE)
        s5 == IF g0.st = "run" THEN [g0 EXCEPT !.hw.gain0 = 0] ELSE g0
        s6 == CtorStep(s5, "stream0_flush_fifo_trigger", "stream0_flush_fifo_trigger_failed",
                       <<1, 0>>, bad = "stream0_flush_fifo_trigger", TRUE)
        c0 == CtorStep(s6, "stream0_start_clks", "stream0_start_clks_failed",
                       <<0, 0>>, bad = "stream0_start_clks", TRUE)
        s7 == IF c0.st = "run" THEN [c0 EXCEPT !.hw.stream0_start_clks = <<0, 0>>] ELSE c0
        s8 == CtorStep(s7, "channel_enable", "channel_failed", <<0, 0>>, bad = "channel", TRUE)
        s9 == CtorStep(s8, "create_buffer", "create_buffer_failed", <<0, 0>>, bad = "buffer", TRUE)
        p0 == CtorStep(s9, "poller_start", "poller_start", <<0, 0>>, FALSE, FALSE)
        s10 == CtorStep(p0, "push", "push_failed", <<0, 0>>, bad = "push", FALSE)
        g1 == CtorStep(s10, "gain0", "gain0_failed", <<conf.txgain, 0>>, bad = "gain0", FALSE)
    IN  IF g1.st = "run" /\ bad # "gain0" THEN [g1 EXCEPT !.hw.gain0 = conf.txgain] ELSE g1

Dexter_ctor(conf, bad) ==
    LET s0 == [hw |-> hw, log |-> <<>>, st |-> "run"]
        s1 == CtorStep(s0, "dc0", "dc0_failed", <<0, 0>>, bad = "dc0", TRUE)
        s2 == CtorStep(s1, "dc1", "dc1_failed", <<0, 0>>, bad = "dc1", TRUE)
        s3 == IF s2.st = "run" /\ conf.sampleRate # 2048000
              THEN [s2 EXCEPT !.st = "throw"] ELSE s2
        s4 == IF s3.st = "run" THEN tune(s3, conf.lo_offset, conf.frequency, bad) ELSE s3
        g0 == CtorStep(s4, "gain0", "gain0_failed", <<0, 0>>, bad = "gain0_zero", TRUE)
        s5 == IF g0.st = "run" THEN [g0 EXCEPT !.hw.gain0 = 0] ELSE g0
        s6 == CtorStep(s5, "stream0_flush_fifo_trigger", "stream0_flush_fifo_trigger_failed",
                       <<1, 0>>, bad = "stream0_flush_fifo_trigger", TRUE)
        c0 == CtorStep(s6, "stream0_start_clks", "stream0_start_clks_failed",
                       <<0, 0>>, bad = "stream0_start_clks", TRUE)
        s7 == IF c0.st = "run" THEN [c0 EXCEPT !.hw.stream0_start_clks = <<0, 0>>] ELSE c0
        s8 == CtorStep(s7, "channel_enable", "channel_failed", <<0, 0>>, bad = "channel", TRUE)
        s9 == CtorStep(s8, "create_buffer", "create_buffer_failed", <<0, 0>>, bad = "buffer", TRUE)
        s10 == CtorStep(s9, "push", "push_failed", <<0, 0>>, bad = "push", FALSE)
        g1 == CtorStep(s10, "gain0", "gain0_failed", <<conf.txgain, 0>>, bad = "gain0", FALSE)
        s11 == IF g1.st = "run" /\ bad # "gain0" THEN [g1 EXCEPT !.hw.gain0 = conf.txgain] ELSE g1
    IN  CtorStep(s11, "poller_start", "poller_start", <<0, 0>>, FALSE, FALSE)

\* Dexter::Dexter; the flush of the FIFO is followed by a sleep of 200 ms
DexterCtor(bad) ==
    /\ pcMod = "ctor"
    /\ LET s == Dexter_ctor(m_config, bad) IN
        /\ hw' = s.hw
        /\ pcMod' = IF s.st = "run" THEN "process" ELSE "failed"
        /\ now' = IF \E i \in 1..Len(s.log) : s.log[i].e \in {"push", "push_failed"}
                  THEN TimeAdd(now, <<0, MARGIN_TICKS>>) ELSE now
        /\ ev' = [NoEv EXCEPT !.op = "ctor", !.bad = bad, !.log = s.log,
                              !.ret = IF s.st = "run" THEN "ok" ELSE "throw"]
    /\ UNCHANGED <<interleaver, driver, dexter, m_channel_is_up, m_require_timestamp_refresh, num_late,
                   num_frames_modulated, underflows, prev_underflows, sdr, m_config,
                   pc, cur, npushed, handed, acct>>

(***************************************************************************)
(* SpecCtor: the driver is constructed, on hardware in the state an        *)
(* earlier run left it in, and then operated.                              *)
(***************************************************************************)
CtorFaults == {"none", "dc0", "dc1", "center_frequency", "frequency0", "gain0_zero",
               "stream0_flush_fifo_trigger", "stream0_start_clks", "channel", "buffer",
               "push", "gain0"}

InitCtor ==
    \E sr \in {2048000, WrongSampleRate}, g \in {0, PreGain}, c \in {<<0, 0>>, <<PreStartSeconds, 0>>} :
        InitFrom([Conf(FALSE, FALSE, ConfHoldover) EXCEPT !.sampleRate = sr],
                 [gain0 |-> g, stream0_start_clks |-> c,
                  gpsdo_locked |-> 1, pps_loss_of_signal |-> 0, buffer_underflows0 |-> 0,
                  center_frequency |-> 0, frequency0 |-> 0],
                 "ctor")

NextCtor ==
    \/ \E bad \in CtorFaults : DexterCtor(bad)
    \/ (npushed < MaxCtorPush /\ Process(frame_len_bytes))
    \/ ProcessMetadata(<<NoTs>>)
    \/ WorkerPop
    \/ WorkerGate1("none", 0)
    \/ WorkerChecks("none")
    \/ WorkerTransmit("none")
    \/ \E v \in {0, 1} : HwChange("buffer_underflows0", v)
    \/ (pcMod \notin {"ctor", "failed"} /\ \E readable \in BOOLEAN : UnderflowPoll(readable))

SpecCtor == InitCtor /\ [][NextCtor]_vars

(***************************************************************************)
(* SpecHealth: the statistics are read for every combination of sensor     *)
(* files that cannot be opened, that hold the value of a healthy board and *)
(* that hold a number near the nominal voltage of the rail.  The hwmon     *)
(* files hold millivolts at the input of the monitor, behind the divider   *)
(* of the rail; a reading is in thousandths of the number in the file.     *)
(***************************************************************************)
HealthSensors ==
    [in0 : {Unreadable, 5000, 454000},
     in1 : {Unreadable, 2234000},
     in2 : {Unreadable, 3300, 2200000},
     in3 : {Unreadable, 454000},
     in4 : {Unreadable, 2200000},
     in5 : {Unreadable, 2500, 2211000},
     in6 : {Unreadable, 2234000},
     tfpga : {Unreadable, 45000, 90000},
     temp1 : {40000}]

HealthNames == {"voltage_alarm", "temp_alarm"}

NextHealth ==
    \/ \E sensors \in HealthSensors : GetAllValues(sensors)
    \/ \E parameter \in HealthNames, sensors \in RcSensors : GetParameter(parameter, sensors)
    \/ \E v \in {0, 1} : HwChange("gpsdo_locked", v)

SpecHealth == InitRC /\ [][NextHealth]_vars

(***************************************************************************)
(* SpecReport: the clock state machine of SpecClock, with the statistics   *)
(* read by the remote control at any moment.                               *)
(***************************************************************************)
NextReport ==
    \/ NextClock
    \/ GetAllValues(NominalSensors)

SpecReport == InitClock /\ [][NextReport]_vars

(***************************************************************************)
(* The poller thread, Dexter::underflow_read_process, step by step: the    *)
(* test of the running flag, the sleep and the read of the attribute, the  *)
(* lock, and the comparison and the store under the lock.                  *)
(***************************************************************************)
MaxUnderflows == 2
MaxPollerPush == 2

\* line 767: the loop condition; line 782 after the loop
PollerCheck ==
    /\ poller.pc = "loop"
    /\ poller' = [poller EXCEPT !.pc = IF dexter_running THEN "read" ELSE "exit"]
    /\ dexter_running' = IF dexter_running THEN dexter_running ELSE FALSE
    /\ ev' = [NoEv EXCEPT !.op = "poller", !.ret = "check"]
    /\ UNCHANGED <<interleaver, dexter, channel, sdr, m_attr_thread_mutex, m_ctx, m_config,
                   pcMod, pc, cur, now, npushed, handed, acct>>

\* lines 768-771: the sleep and the read of buffer_underflows0; a read
\* through a destroyed context has no defined outcome
PollerRead(readable, garbage) ==
    /\ poller.pc = "read"
    /\ LET ok == readable /\ m_ctx = "open"
           value == IF m_ctx = "open" THEN hw.buffer_underflows0 ELSE garbage
       IN  /\ poller' = [pc |-> IF ok \/ m_ctx # "open" THEN "lock" ELSE "loop",
                         underflows_attr |-> IF ok \/ m_ctx # "open" THEN value ELSE 0,
                         r |-> IF ok \/ m_ctx # "open" THEN 0 ELSE -1]
           /\ ev' = [NoEv EXCEPT !.op = "poller", !.ret = "read",
                                 !.bad = IF m_ctx # "open" THEN "destroyed"
                                         ELSE IF readable THEN "none" ELSE "buffer_underflows0"]
    /\ acct' = [acct EXCEPT !.late_polls = IF dexter_running THEN @ ELSE @ + 1]
    /\ UNCHANGED <<interleaver, dexter, channel, sdr, m_attr_thread_mutex, dexter_running, m_ctx, m_config,
                   pcMod, pc, cur, now, npushed, handed>>

\* line 776
PollerLock ==
    /\ poller.pc = "lock"
    /\ m_attr_thread_mutex = "free"
    /\ m_attr_thread_mutex' = "poller"
    /\ poller' = [poller EXCEPT !.pc = "locked"]
    /\ ev' = [NoEv EXCEPT !.op = "poller", !.ret = "lock"]
    /\ UNCHANGED <<interleaver, dexter, channel, sdr, dexter_running, m_ctx, m_config,
                   pcMod, pc, cur, now, npushed, handed, acct>>

\* the value read is stored whenever it differs, a zero included
PollerUpdate_StoresZero ==
    /\ poller.pc = "locked"
    /\ underflows' = IF poller.underflows_attr # underflows
                     THEN poller.underflows_attr ELSE underflows
    /\ m_attr_thread_mutex' = "free"
    /\ poller' = [poller EXCEPT !.pc = "loop"]
    /\ ev' = [NoEv EXCEPT !.op = "poller", !.ret = "update", !.arg = poller.underflows_attr]
    /\ UNCHANGED <<interleaver, dexter, m_channel_is_up, m_require_timestamp_refresh, num_late,
                   num_frames_modulated, prev_underflows, hw, sdr, dexter_running, m_ctx,
                   m_config, pcMod, pc, cur, now, npushed, handed, acct>>

\* lines 777-780: the comparison, the store and the end of the lock's scope
PollerUpdate ==
    /\ poller.pc = "locked"
    /\ underflows' = IF poller.underflows_attr # underflows /\ poller.underflows_attr # 0
                     THEN poller.underflows_attr ELSE underflows
    /\ m_attr_thread_mutex' = "free"
    /\ poller' = [poller EXCEPT !.pc = "loop"]
    /\ ev' = [NoEv EXCEPT !.op = "poller", !.ret = "update", !.arg = poller.underflows_attr]
    /\ UNCHANGED <<interleaver, dexter, m_channel_is_up, m_require_timestamp_refresh, num_late,
                   num_frames_modulated, prev_underflows, hw, sdr, dexter_running, m_ctx,
                   m_config, pcMod, pc, cur, now, npushed, handed, acct>>

\* Dexter::~Dexter, line 787.  The driver is destroyed by the last owner of
\* the device, after the output stage that shares it (SDR::~SDR) is gone.
DexterDtorStore ==
    /\ pcMod = "done"
    /\ pcMod' = "dexter_join"
    /\ dexter_running' = FALSE
    /\ ev' = [NoEv EXCEPT !.op = "dexter_dtor", !.ret = "store"]
    /\ UNCHANGED <<interleaver, dexter, channel, sdr, poller, m_attr_thread_mutex, m_ctx, m_config,
                   pc, cur, now, npushed, handed, acct>>

\* the destructor does not wait for the end of the poller thread
DexterDtorJoin_NoWait ==
    /\ pcMod = "dexter_join"
    /\ pcMod' = "dexter_release"
    /\ ev' = [NoEv EXCEPT !.op = "dexter_dtor", !.ret = "joined"]
    /\ UNCHANGED <<interleaver, driver, dexter, channel, sdr, m_config, pc, cur, now, npushed, handed, acct>>

\* lines 788-790: join returns once the poller thread has ended
DexterDtorJoin ==
    /\ pcMod = "dexter_join"
    /\ poller.pc = "exit"
    /\ pcMod' = "dexter_release"
    /\ ev' = [NoEv EXCEPT !.op = "dexter_dtor", !.ret = "joined"]
    /\ UNCHANGED <<interleaver, driver, dexter, channel, sdr, m_config, pc, cur, now, npushed, handed, acct>>

\* lines 792-808: gain0 is written (the result is not looked at), the buffer
\* is destroyed, the channel disabled and the context destroyed
DexterDtorRelease(bad) ==
    /\ pcMod = "dexter_release"
    /\ pcMod' = "destroyed"
    /\ hw' = IF bad = "gain0" THEN hw ELSE [hw EXCEPT !.gain0 = 0]
    /\ m_ctx' = "destroyed"
    /\ ev' = [NoEv EXCEPT !.op = "dexter_dtor", !.ret = "release", !.bad = bad,
                          !.log = <<"gain0", "buffer_destroy", "channel_disable",
                                    "context_destroy">>]
    /\ UNCHANGED <<interleaver, dexter, m_channel_is_up, m_require_timestamp_refresh, num_late,
                   num_frames_modulated, underflows, prev_underflows, sdr, poller,
                   m_attr_thread_mutex, dexter_running, m_config, pc, cur, now, npushed,
                   handed, acct>>

(***************************************************************************)
(* SpecPoller: the poller runs beside the worker, which transmits frames   *)
(* without timestamps, and beside the remote control, which reads the      *)
(* statistics; the hardware counts underflows and is reset.                *)
(***************************************************************************)
NextPoller ==
    \/ PollerCheck
    \/ \E readable \in BOOLEAN : PollerRead(readable, 0)
    \/ PollerLock
    \/ PollerUpdate
    \/ \E v \in 0..MaxUnderflows : HwChange("buffer_underflows0", v)
    \/ (npushed < MaxPollerPush /\ Process(frame_len_bytes))
    \/ ProcessMetadata(<<NoTs>>)
    \/ WorkerPop
    \/ WorkerGate1("none", 0)
    \/ WorkerChecks("none")
    \/ WorkerTransmit("none")
    \/ GetAllValues(NominalSensors)

SpecPoller == InitRC /\ [][NextPoller]_vars

(***************************************************************************)
(* SpecDexterDown: the output stage is destroyed and the driver after it,  *)
(* while the poller runs.  Every thread is scheduled, the sleep of the     *)
(* poller ends and the attribute reads return within their timeout, hence  *)
(* the weak fairness.                                                      *)
(***************************************************************************)
MaxDownPush == 1

Poller ==
    \/ PollerCheck
    \/ \E readable \in BOOLEAN :
         \E garbage \in IF m_ctx = "open" THEN {0} ELSE 0..MaxUnderflows :
            PollerRead(readable, garbage)
    \/ PollerLock
    \/ PollerUpdate

DexterDtor ==
    \/ DexterDtorStore
    \/ DexterDtorJoin
    \/ \E bad \in {"none", "gain0"} : DexterDtorRelease(bad)

NextDexterDown ==
    \/ (npushed < MaxDownPush /\ Process(frame_len_bytes))
    \/ ProcessMetadata(<<NoTs>>)
    \/ Worker
    \/ Dtor
    \/ Poller
    \/ (m_ctx = "open" /\ \E v \in 0..MaxUnderflows : HwChange("buffer_underflows0", v))
    \/ DexterDtor

SpecDexterDown ==
    /\ InitRC
    /\ [][NextDexterDown]_vars
    /\ WF_vars(Worker)
    /\ WF_vars(DtorTriggerWakeup \/ DtorJoin)
    /\ WF_vars(Poller)
    /\ WF_vars(DexterDtorJoin \/ \E bad \in {"none", "gain0"} : DexterDtorRelease(bad))

(***************************************************************************)
(* FrequencyInterleaver: the constructor builds the table of the carrier   *)
(* positions, and process() copies every block of m_carriers samples       *)
(* through the table; both one round of their loop per step.               *)
(***************************************************************************)
MaxMode == 5
MaxBlocks == 2

alpha == 13

\* sizeof(T) of do_process: complexfix or complexf
sizeofT == IF m_fixedPoint THEN 4 ELSE 8

\* lines 41-65: the switch over the mode
ModeTable(mode) ==
    CASE mode = 1 -> [valid |-> TRUE, carriers |-> 1536, num |-> 2048, beta |-> 511]
      [] mode = 2 -> [valid |-> TRUE, carriers |-> 384, num |-> 512, beta |-> 127]
      [] mode = 3 -> [valid |-> TRUE, carriers |-> 192, num |-> 256, beta |-> 63]
      [] mode \in {0, 4} -> [valid |-> TRUE, carriers |-> 768, num |-> 1024, beta |-> 255]
      [] OTHER -> [valid |-> FALSE, carriers |-> 0, num |-> 0, beta |-> 0]

\* the centre carrier is kept
InBand_WithCentre(perm, num, carriers) ==
    /\ perm >= (num - carriers) \div 2
    /\ perm <= num - (num - carriers) \div 2

\* lines 76-78
InBand(perm, num, carriers) ==
    /\ perm >= (num - carriers) \div 2
    /\ perm <= num - (num - carriers) \div 2
    /\ perm # num \div 2

\* lines 85-86
CarrierIndex(perm, num, carriers) ==
    IF perm > num \div 2 THEN perm - (1 + num \div 2) ELSE perm + (carriers - num \div 2)

\* lines 31-70: the switch and the allocation of the table
FrequencyInterleaver(mode, fixedPoint, bad) ==
    /\ pcFI.pc = "none"
    /\ LET t == ModeTable(mode)
           ok == t.valid /\ bad # "posix_memalign"
       IN  /\ m_fixedPoint' = fixedPoint
           /\ m_carriers' = t.carriers
           /\ m_indices' = <<>>
           /\ pcFI' = [pc |-> IF ok THEN "loop" ELSE "failed", mode |-> mode, num |-> t.num,
                       beta |-> t.beta, j |-> 1, perm |-> 0, overrun |-> FALSE, i |-> 0,
                       out |-> 0]
           /\ ev' = [NoEv EXCEPT !.op = "FrequencyInterleaver", !.arg = mode, !.bad = bad,
                                 !.ret = IF ok THEN "allocated" ELSE "throw"]
    /\ UNCHANGED <<dexter, channel, sdr, driver, dataOut, m_config, pcMod, pc, cur, now,
                   npushed, handed, acct>>

\* lines 72-92: one round of the loop, or its end.  num is a power of two,
\* so that "& (num - 1)" is the remainder modulo num.  A write at or past
\* entry m_carriers is a write outside the allocated table.
FrequencyInterleaverLoop ==
    /\ pcFI.pc = "loop"
    /\ IF pcFI.j < pcFI.num
       THEN LET perm == (alpha * pcFI.perm + pcFI.beta) % pcFI.num
                write == InBand(perm, pcFI.num, m_carriers)
                inside == Len(m_indices) < m_carriers
            IN  /\ m_indices' = IF write /\ inside
                                THEN Append(m_indices,
                                            CarrierIndex(perm, pcFI.num, m_carriers))
                                ELSE m_indices
                /\ pcFI' = [pcFI EXCEPT !.j = @ + 1, !.perm = perm,
                                        !.overrun = @ \/ (write /\ ~inside)]
                /\ ev' = [NoEv EXCEPT !.op = "FrequencyInterleaver", !.arg = perm,
                                      !.ret = IF write THEN "write" ELSE "skip"]
       ELSE /\ pcFI' = [pcFI EXCEPT !.pc = "built"]
            /\ ev' = [NoEv EXCEPT !.op = "FrequencyInterleaver", !.ret = "built"]
            /\ UNCHANGED m_indices
    /\ UNCHANGED <<dexter, channel, sdr, driver, m_fixedPoint, m_carriers, dataOut, m_config,
                   pcMod, pc, cur, now, npushed, handed, acct>>

\* lines 117-120: one round of the inner loop, four samples; sample k of
\* the input holds k, the block starts at sample base of the output
do_process_round(out, base, i, j, indices) ==
    [out EXCEPT ![base + indices[j + 1] + 1] = i,
                ![base + indices[j + 2] + 1] = i + 1,
                ![base + indices[j + 3] + 1] = i + 2,
                ![base + indices[j + 4] + 1] = i + 3]

\* lines 128-136 and 105-112: process() sets the length of the output and
\* do_process checks the number of samples
FrequencyInterleaver_process(length) ==
    /\ pcFI.pc = "built"
    /\ LET sizeIn == length \div sizeofT
           ok == sizeIn % m_carriers = 0
       IN  /\ dataOut' = [length |-> length, data |-> [k \in 1..sizeIn |-> Unwritten]]
           /\ pcFI' = [pcFI EXCEPT !.pc = IF ok /\ sizeIn > 0 THEN "process" ELSE "built",
                                   !.i = 0, !.j = 0, !.out = 0]
           /\ ev' = [NoEv EXCEPT !.op = "process", !.arg = length,
                                 !.ret = IF ~ok THEN "throw"
                                         ELSE IF sizeIn > 0 THEN "start" ELSE "ok"]
    /\ UNCHANGED <<dexter, channel, sdr, driver, m_fixedPoint, m_carriers, m_indices,
                   m_config, pcMod, pc, cur, now, npushed, handed, acct>>

\* lines 114-123: one round of the inner loop; after the last round of a
\* block out moves on by a block, and after the last block process()
\* returns
do_process ==
    /\ pcFI.pc = "process"
    /\ LET sizeIn == dataOut.length \div sizeofT
           blockEnd == ~(pcFI.j + 4 < m_carriers)
           end == blockEnd /\ ~(pcFI.i + 4 < sizeIn)
       IN  /\ dataOut' = [dataOut EXCEPT !.data = do_process_round(@, pcFI.out, pcFI.i,
                                                                  pcFI.j, m_indices)]
           /\ pcFI' = [pcFI EXCEPT !.pc = IF end THEN "built" ELSE "process",
                                   !.i = @ + 4,
                                   !.j = IF blockEnd THEN 0 ELSE @ + 4,
                                   !.out = IF blockEnd THEN @ + m_carriers ELSE @]
           /\ ev' = [NoEv EXCEPT !.op = "process", !.arg = dataOut.length,
                                 !.ret = IF end THEN "ok" ELSE "round"]
    /\ UNCHANGED <<dexter, channel, sdr, driver, m_fixedPoint, m_carriers, m_indices,
                   m_config, pcMod, pc, cur, now, npushed, handed, acct>>

\* the lengths of the input buffers, in bytes: whole blocks, a block and a
\* byte, a block and a sample
InputLengths ==
    {b * m_carriers * sizeofT : b \in 0..MaxBlocks}
        \cup {m_carriers * sizeofT + 1, (m_carriers + 1) * sizeofT}

(***************************************************************************)
(* SpecInterleaver: an interleaver is constructed for a mode, supported or *)
(* not, and then processes buffers.                                        *)
(***************************************************************************)
NextInterleaver ==
    \/ \E mode \in 0..MaxMode, fixedPoint \in BOOLEAN, bad \in {"none", "posix_memalign"} :
          FrequencyInterleaver(mode, fixedPoint, bad)
    \/ FrequencyInterleaverLoop
    \/ \E length \in InputLengths : FrequencyInterleaver_process(length)
    \/ do_process

SpecInterleaver == InitRC /\ [][NextInterleaver]_vars

(***************************************************************************)
(* SpecRealign: synchronous mode while the PPS is lost and returns.  The   *)
(* frames carry the timestamps of a stream that begins at RealignStart,    *)
(* ahead of the wall clock of the whole run, or no timestamp.              *)
(***************************************************************************)
MaxRealignPush == 6
RealignStart == 7

TsRealign(k) ==
    LET t == TimeNorm(RealignStart, k * FrameTicks)
    IN  Ts(TRUE, t[1], t[2], FALSE)

InitRealign == InitWith(Conf(TRUE, FALSE, ConfHoldover), 1, 0)

NextRealign ==
    \/ (npushed < MaxRealignPush /\ Process(frame_len_bytes))
    \/ \E ts \in {NoTs, TsRealign(npushed + 1)} : ProcessMetadata(<<ts>>)
    \/ WorkerPop
    \/ WorkerGate1("none", 0)
    \/ WorkerChecks("none")
    \/ WorkerTransmit("none")
    \/ \E v \in {0, 1} : HwChange("pps_loss_of_signal", v)

SpecRealign == InitRealign /\ [][NextRealign]_vars

(***************************************************************************)
(* SpecGain: the stream of SpecStream, with changed offsets and failing    *)
(* pushes that bring the channel down, while the remote control sets       *)
(* txgain.                                                                 *)
(***************************************************************************)
MaxGainPush == 3

NextGain ==
    \/ (npushed < MaxGainPush /\ Process(frame_len_bytes))
    \/ \E ch \in BOOLEAN : ProcessMetadata(<<TsStream(npushed + 1, 0, ch)>>)
    \/ WorkerPop
    \/ WorkerGate1("none", 0)
    \/ WorkerChecks("none")
    \/ \E bad \in {"none", "push0", "push1"} : WorkerTransmit(bad)
    \/ \E g \in RcGains : SetParameter("txgain", g, "none")

SpecGain == InitStream /\ [][NextGain]_vars

(***************************************************************************)
(* SpecRace: the modulator starts without synchronisation and the remote   *)
(* control switches `synchronous` while the worker handles frames.  The    *)
(* frames are due one second after the wall clock, or, like a frame in a   *)
(* run at a real UTC time, more than TIMESTAMP_ABORT_FUTURE seconds after  *)
(* second 0 and less than that after the wall clock.                       *)
(***************************************************************************)
MaxRacePush == 3

RaceStamps ==
    {Ts(TRUE, TimeAdd(now, OneSecond)[1], TimeAdd(now, OneSecond)[2], FALSE),
     Ts(TRUE, TIMESTAMP_ABORT_FUTURE, PPS_TICKS \div 2, FALSE)}

InitRace == InitWith(Conf(FALSE, FALSE, ConfHoldover), 1, 0)

NextRace ==
    \/ (npushed < MaxRacePush /\ Process(frame_len_bytes))
    \/ \E ts \in RaceStamps : ProcessMetadata(<<ts>>)
    \/ WorkerPop
    \/ WorkerGate1("none", 0)
    \/ WorkerChecks("none")
    \/ WorkerTransmit("none")
    \/ \E v \in {0, 1} : SetParameter("synchronous", v, "none")

SpecRace == InitRace /\ [][NextRace]_vars

(***************************************************************************)
(* C4: the queue holds at most 250 frames while enableSync is true and at  *)
(* most 8 while enableSync is false.                                       *)
(***************************************************************************)
C4_QueueBound ==
    Len(m_queue) <= IF m_config.enableSync THEN 250 ELSE 8

(***************************************************************************)
(* C5: a push by process_metadata into a queue shorter than the limit of   *)
(* the mode appends the frame, reports overflowed = false and the new      *)
(* length, and leaves num_queue_overflows; a push into a longer queue      *)
(* removes the oldest frame, appends, reports overflowed = true and the    *)
(* new length, and adds 1 to num_queue_overflows.                          *)
(***************************************************************************)
C5_PushOverflow ==
    [][(ev'.op = "process_metadata" /\ ev'.ret = "pushed") =>
        IF Len(m_queue) < (IF m_config.enableSync THEN 250 ELSE 8)
        THEN /\ m_queue' = Append(m_queue, ev'.frame)
             /\ ev'.overflowed = FALSE
             /\ ev'.new_size = Len(m_queue) + 1
             /\ num_queue_overflows' = num_queue_overflows
        ELSE /\ m_queue' = Append(Tail(m_queue), ev'.frame)
             /\ ev'.overflowed = TRUE
             /\ ev'.new_size = Len(m_queue')
             /\ num_queue_overflows' = num_queue_overflows + 1]_vars

\* the 251st push in synchronous mode has overflowed and the first frame is gone
C5_Witness ==
    /\ ev.op = "process_metadata"
    /\ m_config.enableSync
    /\ npushed = 251
    /\ ev.overflowed
    /\ ev.new_size = 250
    /\ m_queue[1].id = 2
    /\ num_queue_overflows = 1

(***************************************************************************)
(* C6: frames are handed to handle_frame, and from there to                *)
(* transmit_frame, in the order in which process_metadata enqueued them.   *)
(***************************************************************************)
C6_Order ==
    [][/\ ev'.op = "is_clk_source_ok" => (ev'.frame.id > handed /\ handed' = ev'.frame.id)
       /\ ev'.op = "transmit_frame" => ev'.frame.id = handed
       /\ handed' >= handed]_vars

\* a frame is transmitted after earlier ones were, and after an overflow dropped others
C6_Witness ==
    /\ ev.op = "transmit_frame"
    /\ num_queue_overflows > 0
    /\ acct.transmitted > 1
    /\ ev.frame.id > acct.transmitted + 1

(***************************************************************************)
(* C7: every frame accepted into the queue and no longer there or with the *)
(* worker is transmitted or counted in exactly one of overflows, late,     *)
(* dropped-muted, dropped-no-timestamp.                                    *)
(***************************************************************************)
C7_Accounting ==
    pc = "wait" =>
        npushed = Len(m_queue) + acct.transmitted + num_queue_overflows + num_late
                    + acct.muted + acct.no_timestamp

(***************************************************************************)
(* The hardware accesses of one call of transmit_frame.                    *)
(***************************************************************************)
\* the call wrote, or tried to write, stream0_start_clks
WroteStartClks(log) ==
    \E i \in 1..Len(log) : log[i].e \in {"start_clks", "start_clks_failed"}

\* the call pushed, or tried to push, a buffer
PushedAny(log) ==
    \E i \in 1..Len(log) : log[i].e \in {"push", "push_failed"}

\* the frame the worker holds is at least 0.2 s ahead of the system time
AheadOfSystemTime == ~TimeDiffLt(<<cur.sec, cur.pps>>, now, PPS_TICKS \div 5)

\* the worker calls transmit_frame with the channel down and a timestamped
\* transmission required
HandOffChannelDown ==
    /\ pc = "transmit"
    /\ cur.buf = frame_len_bytes
    /\ ~m_channel_is_up
    /\ m_config.enableSync
    /\ cur.valid

(***************************************************************************)
(* C8: even when every hardware access succeeds, a call of transmit_frame  *)
(* with a correctly sized buffer raises no error, and it either pushes     *)
(* both halves of the frame or increments the late counter or the underrun *)
(* counter.                                                                *)
(***************************************************************************)
C8_DropsCounted ==
    [][(ev'.op = "transmit_frame" /\ ev'.bad = "none" /\ cur.buf = frame_len_bytes) =>
        /\ ev'.ret # "throw"
        /\ \/ Pushed(ev'.log, cur.id)
           \/ num_late' = num_late + 1
           \/ underflows' = underflows + 1]_vars

(***************************************************************************)
(* C9: when the channel is down, enableSync is true, the timestamp of the  *)
(* frame is valid, the clock state is not Startup and the frame is at      *)
(* least 0.2 s ahead of system time, transmit_frame writes                 *)
(* stream0_start_clks = clock_count_at_startup + (sec - utc_seconds_at_    *)
(* startup) * DSP_CLOCK + pps * 10, then sets the gain to txgain and marks *)
(* the channel up, then pushes the two halves.  C9_Arming is the statement *)
(* for every call; C9_ArmingHwOk is the statement for the calls whose      *)
(* hardware accesses all succeed.                                          *)
(***************************************************************************)
ArmingClocks ==
    ClkNorm(m_clock_count_at_startup[1] + (cur.sec - m_utc_seconds_at_startup),
            m_clock_count_at_startup[2] + cur.pps * 10)

ArmingEffects ==
    /\ hw'.stream0_start_clks = ArmingClocks
    /\ hw'.gain0 = m_config.txgain
    /\ m_channel_is_up'
    /\ ev'.log = <<LogEntry("start_clks", ArmingClocks), LogEntry("gain0", <<m_config.txgain, 0>>),
                   LogEntry("push", <<cur.id, 0>>), LogEntry("push", <<cur.id, 1>>)>>

LateEffects ==
    /\ num_late' = num_late + 1
    /\ ~WroteStartClks(ev'.log)
    /\ hw'.stream0_start_clks = hw.stream0_start_clks
    /\ ~PushedAny(ev'.log)
    /\ num_frames_modulated' = num_frames_modulated
    /\ ~m_channel_is_up'

PastDetected == ev'.op = "checks" /\ ev'.ret = "past"

\* transmit_frame finds the margin of the frame below 200 ms
MarginDetected ==
    /\ ev'.op = "transmit_frame"
    /\ HandOffChannelDown
    /\ ~AheadOfSystemTime
    /\ m_clock_state # "Startup"
    /\ ev'.bad # "clks"

\* the worker is done with the frame and nothing of it was pushed
DroppedUnpushed == pc' = "wait" /\ ~PushedAny(ev'.log) /\ acct'.transmitted = acct.transmitted

C12_RefreshRearm ==
    [][(ev'.op = "transmit_frame" /\ cur.buf = frame_len_bytes) =>
        /\ (m_channel_is_up /\ m_require_timestamp_refresh) =>
                /\ Len(ev'.log) = 2
                /\ ev'.log[1].e \in {"gain0", "gain0_failed"} /\ ev'.log[1].v = <<0, 0>>
                /\ ev'.log[2].e \in {"start_clks", "start_clks_failed"} /\ ev'.log[2].v = <<0, 0>>
                /\ ev'.bad # "gain0" => hw'.gain0 = 0
                /\ ev'.bad # "stream0_start_clks" => hw'.stream0_start_clks = <<0, 0>>
                /\ ~m_channel_is_up'
                /\ ~m_require_timestamp_refresh'
        /\ (~m_channel_is_up /\ m_config.enableSync /\ cur.valid) =>
                /\ PushedAny(ev'.log) =>
                        /\ ev'.log[1] = LogEntry("start_clks", ArmingClocks)
                        /\ ~m_require_timestamp_refresh'
                /\ (m_clock_state # "Startup" /\ AheadOfSystemTime
                        /\ ev'.bad \notin {"clks", "stream0_start_clks"}) => PushedAny(ev'.log)]_vars

\* the third frame has re-armed the channel after the second one, handed over
\* with a refresh pending, brought it down
C12_Witness ==
    /\ ev.op = "transmit_frame"
    /\ ev.frame.id = 3
    /\ ev.log[1].e = "start_clks"
    /\ ev.log[1].v = hw.stream0_start_clks
    /\ Pushed(ev.log, 3)
    /\ m_channel_is_up
    /\ num_frames_modulated = 2
    /\ acct.transmitted = 2
    /\ acct.past = 0

(***************************************************************************)
(* C13: a call of transmit_frame made with the channel up and no refresh   *)
(* pending, whose attribute writes succeed, pushes the first half and then *)
(* the second half; when a push fails the channel is brought down and the  *)
(* rest of the frame is not pushed; a timestamped frame handed over with   *)
(* the channel down is pushed only after stream0_start_clks was written    *)
(* for its own timestamp.                                                  *)
(***************************************************************************)
ChannelDownWrites == <<LogEntry("gain0", <<0, 0>>), LogEntry("start_clks", <<0, 0>>)>>

ContinuityIncrement == (cur.buf \div cur.sampleSize) * 8

ContinuityExpected ==
    LET t == last_tx.pps + ContinuityIncrement
    IN  <<last_tx.sec + (t \div 16384000), t % 16384000>>

ContinuityChecked == ev'.op = "checks" /\ m_config.enableSync /\ cur.valid /\ ev'.ret # "throw"

FarFuture == PairLt(<<get_real_secs[1] + 100, get_real_secs[2]>>, TsRealSecs(cur))

C15_FarFuture ==
    [][/\ (ev'.op = "checks" /\ m_config.enableSync /\ cur.valid /\ FarFuture) =>
            /\ ev'.ret = "future"
            /\ pc' = "exit"
            /\ ~m_running'
            /\ UNCHANGED <<m_channel_is_up, hw, num_frames_modulated, num_late, acct>>
       /\ (ev'.op = "transmit_frame" /\ m_config.enableSync /\ cur.valid) => ~FarFuture
       /\ pc = "exit" => (pc' = "exit" /\ ~m_running /\ ~m_running')
       /\ (ev'.op = "process" /\ ~m_running) =>
            (ev'.ret = "throw" /\ UNCHANGED <<m_frame, m_queue, pcMod>>)]_vars

\* process() has failed after a frame 200 s ahead ended the worker
C15_Witness ==
    /\ ev.op = "process"
    /\ ev.ret = "throw"
    /\ pc = "exit"
    /\ ~m_running
    /\ last_tx.init
    /\ last_tx.sec >= StreamStart + FarJump

(***************************************************************************)
(* C16: a frame that passes Gates 1 to 3 of handle_frame while muting is   *)
(* true is dropped at Gate 4 with the refresh flag set and is not passed   *)
(* to transmit_frame; a frame is passed to transmit_frame only when muting *)
(* is false at Gate 4.                                                     *)
(***************************************************************************)
C16_Muting ==
    [][ev'.op = "checks" =>
        /\ (m_config.muting /\ ev'.ret \notin {"no_timestamp", "incomplete", "past", "future", "throw"}) =>
                /\ ev'.ret = "muted"
                /\ m_require_timestamp_refresh'
                /\ pc' = "wait"
                /\ cur' = NoFrame
                /\ UNCHANGED <<m_channel_is_up, hw, num_frames_modulated, num_late>>
        /\ pc' = "transmit" => ~m_config.muting
        /\ ev'.ret = "muted" => m_config.muting]_vars

\* a frame has been dropped for muting in the middle of a stream
C16_Witness ==
    /\ ev.op = "checks"
    /\ ev.ret = "muted"
    /\ ev.arg = 0
    /\ ~ev.frame.offset_changed
    /\ m_config.muting
    /\ m_require_timestamp_refresh
    /\ m_channel_is_up
    /\ acct.transmitted >= 1
    /\ pc = "wait"

(***************************************************************************)
(* C17: in the steady state of synchronous operation no refresh is ever    *)
(* requested, latepackets and underruns stay 0, every frame the worker has *)
(* handled is counted in frames, and after all N frames frames = N.        *)
(***************************************************************************)
C17_SteadyState ==
    /\ ~m_require_timestamp_refresh
    /\ num_late = 0
    /\ underflows = 0
    /\ num_queue_overflows = 0
    /\ pc = "wait" => (num_frames_modulated = handed /\ acct.transmitted = handed)
    /\ (pc = "wait" /\ m_queue = <<>> /\ pcMod = "process" /\ npushed = MaxSteadyPush) =>
            num_frames_modulated = MaxSteadyPush

\* the worker has handled all the frames of the stream
C17_Witness ==
    /\ pc = "wait"
    /\ m_queue = <<>>
    /\ pcMod = "process"
    /\ npushed = MaxSteadyPush
    /\ handed = MaxSteadyPush
    /\ num_frames_modulated = MaxSteadyPush
    /\ acct.transmitted = MaxSteadyPush
    /\ m_clock_state = "Normal"
    /\ m_channel_is_up

(***************************************************************************)
(* C18: process() stores the buffer, returns its length and leaves the     *)
(* queue alone; process_metadata with an empty vector, or while the worker *)
(* is not running, leaves the queue and the overflow counter alone; with a *)
(* non-empty vector it enqueues the stored buffer with the timestamp of    *)
(* the first element; nothing else enqueues a frame.                       *)
(***************************************************************************)
LastQueued == m_queue'[Len(m_queue')]

C18_Enqueue ==
    [][/\ \A size \in FrameLens : Process(size) =>
            /\ UNCHANGED <<m_queue, num_queue_overflows, npushed>>
            /\ m_running => (ev'.ret = "ok" /\ ev'.arg = size /\ m_frame' = size)
       /\ \A vec \in MetaVecs : ProcessMetadata(vec) =>
            IF vec = <<>> \/ ~m_running
            THEN UNCHANGED <<m_queue, num_queue_overflows, npushed>>
            ELSE /\ m_queue' = Append(m_queue, LastQueued)
                 /\ LastQueued.buf = m_frame
                 /\ Ts(LastQueued.valid, LastQueued.sec, LastQueued.pps, LastQueued.offset_changed)
                        = vec[1]
       /\ (npushed' # npushed \/ Len(m_queue') > Len(m_queue)) =>
            (ev'.op = "process_metadata" /\ m_running /\ ev'.ret = "pushed")]_vars

\* a frame has been enqueued with the timestamp of the first element of a
\* vector whose second element is earlier
C18_Witness ==
    /\ ev.op = "process_metadata"
    /\ ev.ret = "pushed"
    /\ m_queue # <<>>
    /\ m_queue[Len(m_queue)] = ev.frame
    /\ Ts(ev.frame.valid, ev.frame.sec, ev.frame.pps, ev.frame.offset_changed)
            = TsStream(npushed + 1, 0, FALSE)
    /\ npushed > 1

(***************************************************************************)
(* C19: once the destructor has cleared the running flag, the worker       *)
(* thread ends and the join completes; a frame popped while the flag is    *)
(* clear is not passed to handle_frame; a worker that has ended has left   *)
(* the flag false.                                                         *)
(***************************************************************************)
C19_Shutdown ==
    /\ (pcMod = "wakeup") ~> (pcMod = "done")
    /\ [][(ev'.op = "pop" /\ ~m_running) => (pc' = "exit" /\ cur' = NoFrame)]_vars
    /\ [][(pc = "wait" /\ pc' = "gate1") => (m_running /\ pcMod \in {"process", "metadata"})]_vars
    /\ [](pc = "exit" => ~m_running)
    /\ [](pcMod = "done" => (pc = "exit" /\ ~m_running))

\* the join has completed although frames were left in the queue and the
\* worker handled frames before
C19_Witness ==
    /\ pcMod = "done"
    /\ pc = "exit"
    /\ ~m_running
    /\ m_queue # <<>>
    /\ acct.transmitted >= 1

(***************************************************************************)
(* C20: transmit_frame called with a buffer whose length is not            *)
(* TRANSMISSION_FRAME_LEN_SAMPS * 2 bytes raises an error and changes      *)
(* nothing: the channel state, the refresh flag, the counters and the      *)
(* hardware attributes are as before and nothing is pushed.                *)
(***************************************************************************)
C20_InvalidBufferSize ==
    [][(ev'.op = "transmit_frame" /\ cur.buf # TRANSMISSION_FRAME_LEN_SAMPS * 2) =>
        /\ ev'.ret = "throw"
        /\ ev'.log = <<>>
        /\ UNCHANGED <<dexter, channel>>
        /\ acct'.transmitted = acct.transmitted]_vars

\* a short buffer has been refused with the channel down, and the worker
\* thread has ended
C20_Witness ==
    /\ ev.op = "transmit_frame"
    /\ ev.ret = "throw"
    /\ ev.frame.buf = ShortFrameLen
    /\ ev.frame.valid
    /\ m_config.enableSync
    /\ m_clock_state = "Normal"
    /\ ~m_channel_is_up
    /\ pc = "exit"
    /\ ~m_running

(***************************************************************************)
(* C21: set_parameter with a name that is not settable, read-only names    *)
(* included, fails with ParameterError and leaves the configuration and    *)
(* the hardware attributes as they were; setting `channel` to a label that *)
(* is not in the channel table fails with ParameterError, leaves the       *)
(* configured frequency and does not retune.                               *)
(***************************************************************************)
C21_UnknownParameter ==
    [][ev'.op = "set_parameter" =>
        /\ ev'.parameter \notin {"txgain", "rxgain", "bandwidth", "freq", "channel", "muting",
                                 "synchronous", "max_gps_holdover_time"} =>
                /\ ev'.ret = "ParameterError"
                /\ ev'.log = <<>>
                /\ UNCHANGED <<driver, m_config, hw, dexter, channel, sdr>>
        /\ (ev'.parameter = "channel" /\ ev'.arg \notin {"5A", "12C", "13F"}) =>
                /\ ev'.ret = "ParameterError"
                /\ ev'.log = <<>>
                /\ UNCHANGED <<driver, m_config, hw, dexter, channel, sdr>>
        /\ (ev'.parameter = "channel" /\ ev'.arg = "13F") =>
                /\ ev'.ret = "ok"
                /\ m_config'.frequency = 239200000
                /\ hw'.center_frequency = 239200000]_vars

\* a label that is not in the table has been refused after the frequency was
\* set to the one of channel 13F
C21_Witness ==
    /\ ev.op = "set_parameter"
    /\ ev.parameter = "channel"
    /\ ev.arg = "13G"
    /\ ev.ret = "ParameterError"
    /\ m_config.frequency = ChannelTable["13F"]
    /\ hw.center_frequency = ChannelTable["13F"]

AlignmentRun ==
    /\ ev'.op = "is_clk_source_ok"
    /\ ev'.ticks = 1
    /\ m_clock_state = "Startup"
    /\ hw.gpsdo_locked = 1
    /\ hw.pps_loss_of_signal = 0
    /\ ev'.bad = "none"

ReadingA == <<now[1] + 1 + HwClkEpoch, HwClkPhase>>

ReadingB == ClkNorm(now[1] + 2 + HwClkEpoch, HwClkPhase + ev'.arg)

C23_Alignment ==
    [][/\ (m_clock_state = "Startup" /\ m_clock_state' = "Normal") =>
            (AlignmentRun /\ ClkSub(ReadingB, ReadingA) = <<1, 0>>)
       /\ AlignmentRun =>
            IF ClkSub(ReadingB, ReadingA) = <<1, 0>>
            THEN /\ m_clock_state' = "Normal"
                 /\ now' = <<now[1] + 2, PPS_TICKS \div 5>>
                 /\ m_utc_seconds_at_startup' = now[1] + 2
                 /\ m_clock_count_at_startup' = ReadingB
                 /\ m_holdover_since' = HOLDOVER_NONE
                 /\ m_holdover_since_t' = 0
                 /\ ev'.ret = "true"
            ELSE /\ ev'.ret = "throw"
                 /\ UNCHANGED dexter]_vars

\* the clock has been aligned in a run that began after the wall clock had
\* advanced, on readings DSP_CLOCK apart
C23_Witness ==
    /\ ev.op = "is_clk_source_ok"
    /\ ev.from = "Startup"
    /\ ev.ret = "true"
    /\ m_clock_state = "Normal"
    /\ m_utc_seconds_at_startup = now[1]
    /\ m_utc_seconds_at_startup > StartSec + 2
    /\ m_clock_count_at_startup = <<now[1] + HwClkEpoch, HwClkPhase>>
    /\ m_holdover_since = HOLDOVER_NONE
    /\ m_holdover_since_t = 0

(***************************************************************************)
(* C24: get_parameter, for every name, and get_all_values, which calls     *)
(* get_run_statistics, leave the clock state, the alignment data and the   *)
(* holdover markers as they are, and report the clock state as it is; the  *)
(* clock state and the alignment data change only in a call of             *)
(* is_clk_source_ok that ticks the state machine.                          *)
(***************************************************************************)
C24_ReadsDoNotTick ==
    [][/\ ev'.op \in {"get_parameter", "get_all_values"} =>
            /\ UNCHANGED <<m_clock_state, m_utc_seconds_at_startup, m_clock_count_at_startup,
                           m_holdover_since, m_holdover_since_t>>
            /\ UNCHANGED <<driver, channel, sdr, m_config, now>>
       /\ (ev'.op = "get_parameter" /\ ev'.parameter = "clock_state") =>
            ev'.out = CASE m_clock_state = "Startup" -> "startup"
                        [] m_clock_state = "Normal" -> "normal"
                        [] m_clock_state = "Holdover" -> "holdover"
       /\ ev'.op = "get_all_values" => ev'.out.in_holdover_since = m_holdover_since_t
       /\ <<m_clock_state, m_utc_seconds_at_startup, m_clock_count_at_startup,
            m_holdover_since, m_holdover_since_t>>' #
          <<m_clock_state, m_utc_seconds_at_startup, m_clock_count_at_startup,
            m_holdover_since, m_holdover_since_t>> =>
            (ev'.op = "is_clk_source_ok" /\ ev'.ticks = 1)]_vars

\* the clock state has been read as holdover after the holdover time had
\* run out: a tick would have ended the holdover
C24_Witness ==
    /\ ev.op = "get_parameter"
    /\ ev.parameter = "clock_state"
    /\ ev.out = "holdover"
    /\ m_clock_state = "Holdover"
    /\ m_holdover_since_t > 0
    /\ now[1] - m_holdover_since[1] > m_config.maxGPSHoldoverTime + 1

C26_EarlyGates ==
    [][/\ (ev'.op = "is_clk_source_ok" /\ ev'.ret = "false") =>
            /\ pc' = "wait"
            /\ cur' = NoFrame
            /\ m_require_timestamp_refresh' = m_require_timestamp_refresh
            /\ last_tx' = last_tx
            /\ UNCHANGED <<channel, acct, m_running>>
       /\ (ev'.op = "checks" /\ m_config.enableSync /\ m_config.muteNoTimestamps /\ ~cur.valid) =>
            /\ ev'.ret = "no_timestamp"
            /\ pc' = "wait"
            /\ cur' = NoFrame
            /\ m_require_timestamp_refresh' = m_require_timestamp_refresh
            /\ last_tx' = last_tx
            /\ UNCHANGED <<channel, dexter, m_running>>
            /\ acct'.transmitted = acct.transmitted
       /\ (pc = "gate1" /\ pc' = "checks") => ev'.ret = "true"
       /\ (pc = "checks" /\ pc' = "transmit") =>
            ~(m_config.enableSync /\ m_config.muteNoTimestamps /\ ~cur.valid)
       /\ ev'.op = "transmit_frame" => pc = "transmit"]_vars

\* a frame without timestamp has been dropped at Gate 2 in the middle of a
\* stream, with the channel up
C26_Witness ==
    /\ ev.op = "checks"
    /\ ev.ret = "no_timestamp"
    /\ m_config.enableSync
    /\ m_config.muteNoTimestamps
    /\ last_tx.init
    /\ last_tx.sec >= StreamStart
    /\ m_channel_is_up
    /\ ~m_require_timestamp_refresh
    /\ acct.no_timestamp = 1
    /\ pc = "wait"

(***************************************************************************)
(* C27: a call of transmit_frame made with the channel down, enableSync    *)
(* set, a valid timestamp and the clock state Startup returns without any  *)
(* effect: no attribute is written, nothing is pushed, the channel stays   *)
(* down, and the frames counter, the late counter and the refresh flag are *)
(* unchanged.                                                              *)
(***************************************************************************)
C27_StartupSilent ==
    [][(ev'.op = "transmit_frame" /\ HandOffChannelDown /\ m_clock_state = "Startup") =>
        /\ ev'.ret = "return"
        /\ ev'.log = <<>>
        /\ hw' = hw
        /\ ~m_channel_is_up'
        /\ num_frames_modulated' = num_frames_modulated
        /\ num_late' = num_late
        /\ m_require_timestamp_refresh' = m_require_timestamp_refresh
        /\ acct'.transmitted = acct.transmitted
        /\ pc' = "wait"
        /\ m_running' = m_running]_vars

\* a frame with a changed offset has been handed over in state Startup, after
\* `synchronous` was set behind Gate 1, and the refresh flag is still set
C27_Witness ==
    /\ ev.op = "transmit_frame"
    /\ ev.ret = "return"
    /\ ev.log = <<>>
    /\ m_clock_state = "Startup"
    /\ m_config.enableSync
    /\ ev.frame.valid
    /\ ev.frame.offset_changed
    /\ m_require_timestamp_refresh
    /\ ~m_channel_is_up
    /\ num_late = 0
    /\ num_frames_modulated = 0

(***************************************************************************)
(* C28: the construction of the Dexter driver with a sample rate other     *)
(* than 2048000 fails after the two DC offset writes, before any write of  *)
(* gain0, stream0_flush_fifo_trigger or stream0_start_clks and without     *)
(* starting the poller.  Otherwise the accesses come in the order: gain0   *)
(* to 0, stream0_flush_fifo_trigger to 1, stream0_start_clks to 0, the     *)
(* channel enabled, the buffer created, one zeroed buffer pushed, gain0    *)
(* to the configured txgain, the poller started; a failure of the push or  *)
(* of the last gain write does not stop the construction, a failure of an  *)
(* earlier one ends it there; the poller polls only once it is started.    *)
(***************************************************************************)
CtorOrder ==
    <<LogEntry("dc0", <<0, 0>>), LogEntry("dc1", <<0, 0>>),
      LogEntry("center_frequency", <<m_config.frequency, 0>>),
      LogEntry("frequency0", <<m_config.lo_offset, 0>>),
      LogEntry("gain0", <<0, 0>>),
      LogEntry("stream0_flush_fifo_trigger", <<1, 0>>),
      LogEntry("stream0_start_clks", <<0, 0>>),
      LogEntry("channel_enable", <<0, 0>>),
      LogEntry("create_buffer", <<0, 0>>),
      LogEntry("push", <<0, 0>>),
      LogEntry("gain0", <<m_config.txgain, 0>>),
      LogEntry("poller_start", <<0, 0>>)>>

CtorFailed ==
    <<"dc0_failed", "dc1_failed", "center_frequency_failed", "frequency0_failed",
      "gain0_failed", "stream0_flush_fifo_trigger_failed", "stream0_start_clks_failed",
      "channel_failed", "create_buffer_failed", "push_failed", "gain0_failed", "poller_start">>

CtorFatal == {"dc0", "dc1", "gain0_zero", "stream0_flush_fifo_trigger", "stream0_start_clks",
              "channel", "buffer"}

C28_ConstructionOrder ==
    [][/\ ev'.op = "ctor" =>
            LET log == ev'.log IN
            IF m_config.sampleRate # 2048000
            THEN /\ ev'.ret = "throw"
                 /\ pcMod' = "failed"
                 /\ Len(log) <= 2
                 /\ \A i \in 1..Len(log) : log[i].e \in {"dc0", "dc1", "dc0_failed", "dc1_failed"}
                 /\ hw' = hw
            ELSE /\ Len(log) <= Len(CtorOrder)
                 /\ \A i \in 1..Len(log) :
                        /\ log[i].v = CtorOrder[i].v
                        /\ log[i].e \in {CtorOrder[i].e, CtorFailed[i]}
                        /\ (log[i].e # CtorOrder[i].e /\ ev'.bad \in CtorFatal) => i = Len(log)
                 /\ ev'.bad \notin CtorFatal =>
                        /\ ev'.ret = "ok"
                        /\ Len(log) = Len(CtorOrder)
                        /\ pcMod' = "process"
                        /\ hw'.gain0 = IF ev'.bad = "gain0" THEN 0 ELSE m_config.txgain
                        /\ hw'.stream0_start_clks = <<0, 0>>
                 /\ ev'.bad \in CtorFatal =>
                        /\ ev'.ret = "throw"
                        /\ pcMod' = "failed"
                        /\ log[Len(log)].e # CtorOrder[Len(log)].e
                        /\ hw'.gain0 \in {0, hw.gain0}
       /\ ev'.op = "underflow_poll" => pcMod = "process" \/ pcMod = "metadata"]_vars

\* the driver was constructed at 2048000 samples per second without a failure:
\* the twelve accesses were made, the gain is raised and the owner goes on
C28_Witness ==
    /\ ev.op = "ctor"
    /\ ev.bad = "none"
    /\ ev.ret = "ok"
    /\ Len(ev.log) = 12
    /\ hw.gain0 = m_config.txgain
    /\ hw.center_frequency = m_config.frequency
    /\ pcMod = "process"

(***************************************************************************)
(* C29: in the statistics map voltage_alarm is false exactly when the      *)
(* seven rails are readable, vcc3v3, vcc5v4, vcc3v3pll and vcc2v5io are    *)
(* between 0.85 and 1.15 times 3.3 V, 5.4 V, 3.3 V and 2.5 V and           *)
(* vcc_main_in is above 10 V; temp_alarm is false exactly when tempfpga    *)
(* is readable and at most 85 degrees.  The values are those of the map,   *)
(* in its units.                                                           *)
(***************************************************************************)
RailsReadable(rs) ==
    \A rail \in {"vcc3v3", "vcc5v4", "vfan", "vcc_main_in", "vcc3v3pll", "vcc2v5io", "vccocxo"} :
        rs[rail] # -1

\* 0.85 * nominal <= value <= 1.15 * nominal, for a value in 1/unit V and a
\* nominal voltage in millivolts
RailWithin(value, nominal, unit) ==
    /\ value >= 85 * nominal * (unit \div 100000)
    /\ value <= 115 * nominal * (unit \div 100000)

RailsHealthy(rs) ==
    /\ RailsReadable(rs)
    /\ RailWithin(rs.vcc3v3, 3300, 36000000)
    /\ RailWithin(rs.vcc5v4, 5400, 36000000)
    /\ RailWithin(rs.vcc3v3pll, 3300, 36000000)
    /\ RailWithin(rs.vcc2v5io, 2500, 360000000)
    /\ rs.vcc_main_in > 10 * 22000000

C29_HealthAlarms ==
    ev.op = "get_all_values" =>
        /\ ev.out.voltage_alarm = ~RailsHealthy(ev.out)
        /\ ev.out.temp_alarm = ~(ev.out.tempfpga # -1 /\ ev.out.tempfpga <= 85000)

(***************************************************************************)
(* C30: in every state the statistics report in_holdover_since as 0 when   *)
(* the clock state is Startup or Normal and as the holdover marker when it *)
(* is Holdover, so that a non-zero value is reported only together with    *)
(* clock_state holdover; the reported clock_state is the name of the       *)
(* state of the driver, one of startup, normal and holdover; a map that    *)
(* was read says the same.  The marker is 0 outside Holdover: it changes   *)
(* only when the driver goes from Normal to Holdover, where it becomes the *)
(* UTC second of that moment, and from Holdover to Startup, where it       *)
(* becomes 0, and it is 0 after the step from Startup to Normal.           *)
(***************************************************************************)
ReportedState ==
    CASE m_clock_state = "Startup" -> "startup"
      [] m_clock_state = "Normal" -> "normal"
      [] m_clock_state = "Holdover" -> "holdover"
      [] OTHER -> "none"

StatisticsConsistent(rs) ==
    /\ rs.clock_state \in {"startup", "normal", "holdover"}
    /\ rs.clock_state = ReportedState
    /\ rs.in_holdover_since # 0 => rs.clock_state = "holdover"
    /\ m_clock_state \in {"Startup", "Normal"} => rs.in_holdover_since = 0
    /\ m_clock_state = "Holdover" => rs.in_holdover_since = m_holdover_since_t

C30_HoldoverReport ==
    /\ [](/\ StatisticsConsistent(get_run_statistics(NominalSensors))
          /\ ev.op = "get_all_values" => StatisticsConsistent(ev.out)
          /\ m_clock_state \in {"Startup", "Normal"} => m_holdover_since_t = 0
          /\ m_clock_state = "Holdover" => m_holdover_since_t # 0)
    /\ [][/\ m_holdover_since_t' # m_holdover_since_t =>
                \/ m_clock_state = "Normal" /\ m_clock_state' = "Holdover"
                \/ m_clock_state = "Holdover" /\ m_clock_state' = "Startup"
          /\ (m_clock_state = "Normal" /\ m_clock_state' = "Holdover") =>
                m_holdover_since_t' = now'[1]
          /\ (m_clock_state = "Holdover" /\ m_clock_state' = "Startup") =>
                m_holdover_since_t' = 0
          /\ (m_clock_state = "Startup" /\ m_clock_state' = "Normal") =>
                m_holdover_since_t' = 0]_vars

\* the statistics were read during a holdover that began after the start of
\* the run: they name the state and the second the holdover began
C30_Witness ==
    /\ ev.op = "get_all_values"
    /\ m_clock_state = "Holdover"
    /\ ev.out.clock_state = "holdover"
    /\ ev.out.in_holdover_since = m_holdover_since_t
    /\ ev.out.in_holdover_since > StartSec

(***************************************************************************)
(* C31: the poller stores the value read from buffer_underflows0 only when *)
(* the read succeeded and the value differs from the stored count and is   *)
(* not zero, and then stores exactly that value; the stored count changes  *)
(* only in a step of the poller that holds m_attr_thread_mutex, and        *)
(* transmit_frame and the statistics run only while the poller does not    *)
(* hold it; no step of the poller changes a hardware attribute, the        *)
(* channel state, the refresh flag, the clock state, the counters of late  *)
(* and modulated frames or anything of the SDR stage; a stored count that  *)
(* is not zero never becomes zero.                                         *)
(***************************************************************************)
C31_PollerObserver ==
    [][/\ underflows' # underflows =>
            /\ ev'.op = "poller" /\ ev'.ret = "update"
            /\ m_attr_thread_mutex = "poller" /\ poller.pc = "locked"
            /\ poller.r = 0
            /\ poller.underflows_attr # underflows /\ poller.underflows_attr # 0
            /\ underflows' = poller.underflows_attr
       /\ (ev'.op = "poller" /\ ev'.ret = "update" /\ poller.underflows_attr # underflows
              /\ poller.underflows_attr # 0) => underflows' = poller.underflows_attr
       /\ (ev'.op = "poller" /\ ev'.ret = "read") =>
            /\ poller'.r = 0 <=> ev'.bad = "none"
            /\ poller'.r = 0 => poller'.underflows_attr = hw.buffer_underflows0
            /\ poller'.r # 0 => poller'.pc = "loop"
       /\ ev'.op \in {"transmit_frame", "get_all_values", "get_parameter"} =>
            m_attr_thread_mutex = "free" /\ m_attr_thread_mutex' = "free"
       /\ ev'.op = "poller" =>
            /\ hw' = hw
            /\ m_channel_is_up' = m_channel_is_up
            /\ m_require_timestamp_refresh' = m_require_timestamp_refresh
            /\ num_late' = num_late
            /\ num_frames_modulated' = num_frames_modulated
            /\ prev_underflows' = prev_underflows
            /\ UNCHANGED <<dexter, sdr, m_config, pc, pcMod, cur>>
       /\ underflows # 0 => underflows' # 0]_vars

\* the poller has just declined, under the mutex, to store the zero it read
\* after the hardware counter was reset, and the stored count is still the
\* earlier one
C31_Witness ==
    /\ ev.op = "poller"
    /\ ev.ret = "update"
    /\ ev.arg = 0
    /\ hw.buffer_underflows0 = 0
    /\ underflows > 0
    /\ m_attr_thread_mutex = "free"
    /\ num_frames_modulated > 0

(***************************************************************************)
(* C32: the refresh flag is set only by handle_frame and cleared only by   *)
(* transmit_frame.  A call that finds the flag set and leaves it set       *)
(* pushes nothing; a call that clears it either brings the channel down    *)
(* and pushes nothing, or was made with the channel down for a frame with  *)
(* a timestamp and pushes only after stream0_start_clks was written with   *)
(* the start time of that frame; nothing but transmit_frame pushes.        *)
(***************************************************************************)
FirstPush(log) ==
    CHOOSE i \in 1..Len(log) :
        /\ log[i].e \in {"push", "push_failed"}
        /\ \A j \in 1..(i - 1) : log[j].e \notin {"push", "push_failed"}

ClearedByChannelDown(log) ==
    /\ Len(log) >= 2
    /\ log[Len(log) - 1].e \in {"gain0", "gain0_failed"} /\ log[Len(log) - 1].v = <<0, 0>>
    /\ log[Len(log)].e \in {"start_clks", "start_clks_failed"} /\ log[Len(log)].v = <<0, 0>>

C32_RefreshKept ==
    [][/\ (~m_require_timestamp_refresh /\ m_require_timestamp_refresh') =>
            /\ ev'.op = "checks"
            /\ cur.valid /\ m_config.enableSync
       /\ ev'.op # "transmit_frame" => ~PushedAny(ev'.log) /\ acct'.transmitted = acct.transmitted
       /\ (m_require_timestamp_refresh /\ m_require_timestamp_refresh') =>
            ~PushedAny(ev'.log)
       /\ (m_require_timestamp_refresh /\ ~m_require_timestamp_refresh') =>
            /\ ev'.op = "transmit_frame"
            /\ \/ /\ ClearedByChannelDown(ev'.log)
                  /\ ~m_channel_is_up'
                  /\ ~PushedAny(ev'.log)
               \/ /\ HandOffChannelDown
                  /\ ev'.log[1] = LogEntry("start_clks", ArmingClocks)
                  /\ ArmingClocks # <<0, 0>>
                  /\ PushedAny(ev'.log) => FirstPush(ev'.log) > 1]_vars

\* a frame handed over with the channel down and a refresh pending has armed
\* the channel for its own start time, cleared the flag and been pushed
C32_Witness ==
    /\ ev.op = "transmit_frame"
    /\ Len(ev.log) >= 1
    /\ ev.log[1].e = "start_clks"
    /\ ev.log[1].v # <<0, 0>>
    /\ Pushed(ev.log, ev.frame.id)
    /\ ev.frame.offset_changed
    /\ ~m_require_timestamp_refresh
    /\ m_channel_is_up
    /\ hw.stream0_start_clks = ev.log[1].v

(***************************************************************************)
(* C33: a frame is pushed only on a channel that was brought up without a  *)
(* start time or was armed with the alignment reference the clock state    *)
(* machine holds at the push: after a new alignment no frame is pushed on  *)
(* a channel armed with the reference of the alignment before, and a frame *)
(* with a timestamp is pushed after stream0_start_clks was written from    *)
(* the new reference.                                                      *)
(***************************************************************************)
ArmedAtPush == IF Armed(ev'.log) THEN AlignmentReference ELSE acct.armed

C33_RealignRearm ==
    [][(ev'.op = "transmit_frame" /\ PushedAny(ev'.log)) =>
            ArmedAtPush \in {NotArmed, AlignmentReference}]_vars

(***************************************************************************)
(* C34: in synchronous mode a frame with a valid timestamp is pushed only  *)
(* on an armed channel: since the channel came up, the start time of a     *)
(* frame was written to stream0_start_clks.                                *)
(***************************************************************************)
C34_PushedOnlyArmed ==
    [][(ev'.op = "transmit_frame" /\ m_config.enableSync /\ cur.valid /\ PushedAny(ev'.log)) =>
            ArmedAtPush # NotArmed]_vars

(***************************************************************************)
(* C35: a step that brings the channel down, its gain write succeeding,    *)
(* leaves gain0 at 0, and gain0 stays 0 as long as the channel stays down. *)
(***************************************************************************)
C35_GainZeroWhileDown ==
    [][/\ (m_channel_is_up /\ ~m_channel_is_up' /\ ev'.bad # "gain0") => hw'.gain0 = 0
       /\ (~m_channel_is_up /\ hw.gain0 = 0 /\ ~m_channel_is_up') => hw'.gain0 = 0]_vars

(***************************************************************************)
(* C36: the frames statistic is the number of frames whose two halves were *)
(* both pushed: a call of transmit_frame adds 1 to num_frames_modulated    *)
(* when it pushed both halves of its frame and nothing otherwise.          *)
(***************************************************************************)
C36_FramesCounted ==
    /\ num_frames_modulated = acct.transmitted
    /\ get_run_statistics(NominalSensors).frames = acct.transmitted

(***************************************************************************)
(* C37: the timestamp checks of handle_frame compare the timestamp of a    *)
(* frame with the device time only while the clock state is not Startup,   *)
(* and in state Startup no frame is aborted as too far in the future and   *)
(* the worker is not ended by the checks.                                  *)
(***************************************************************************)
C37_NoStartupCompare ==
    [][ev'.op = "checks" =>
            /\ (m_config.enableSync /\ cur.valid) => m_clock_state # "Startup"
            /\ m_clock_state = "Startup" =>
                    /\ ev'.ret # "future"
                    /\ pc' # "exit"
                    /\ m_running' = m_running]_vars


(***************************************************************************)
(* C38: once the destructor of the driver has cleared the running flag,    *)
(* the poller polls at most one more time, leaves its loop, and the join   *)
(* and the destructor complete.  The write of gain0, the destruction of    *)
(* the buffer, the disabling of the channel and the destruction of the     *)
(* context happen only when the poller has exited, and the poller never    *)
(* reads an attribute through a destroyed context.                         *)
(***************************************************************************)
C38_PollerJoined ==
    /\ (pcMod = "dexter_join") ~> (poller.pc = "exit")
    /\ (pcMod = "dexter_join") ~> (pcMod = "destroyed")
    /\ [](acct.late_polls <= 1)
    /\ [][ev'.op = "dexter_dtor" /\ ev'.ret = "release" =>
                /\ poller.pc = "exit"
                /\ m_ctx = "open" /\ m_ctx' = "destroyed"
                /\ ev'.bad = "none" => hw'.gain0 = 0]_vars
    /\ [][ev'.op = "poller" /\ ev'.ret = "read" => m_ctx = "open"]_vars
    /\ [](m_ctx = "destroyed" => poller.pc = "exit" /\ ~dexter_running)

\* the driver is destroyed after the poller made one more poll
C38_Witness ==
    /\ pcMod = "destroyed"
    /\ m_ctx = "destroyed"
    /\ poller.pc = "exit"
    /\ acct.late_polls = 1
    /\ hw.gain0 = 0

(***************************************************************************)
(* C39: for the modes 1, 2, 3, 4 and 0 the constructor builds a table of   *)
(* exactly m_carriers entries (1536, 384, 192, 768, 768) that is a         *)
(* permutation of 0 .. m_carriers-1: while it is built every entry is      *)
(* below m_carriers, no value occurs twice and no write goes past the      *)
(* table.  When process() returns, every block of m_carriers samples of    *)
(* the output holds every sample of the same block of the input exactly    *)
(* once.  For any other mode the construction fails.                       *)
(***************************************************************************)
SupportedCarriers(mode) ==
    CASE mode = 1 -> 1536
      [] mode = 2 -> 384
      [] mode = 3 -> 192
      [] mode \in {0, 4} -> 768
      [] OTHER -> 0

TableEntries == {m_indices[k] : k \in 1..Len(m_indices)}

BlockOneToOne(b) ==
    {dataOut.data[b * m_carriers + k] : k \in 1..m_carriers}
        = (b * m_carriers)..((b + 1) * m_carriers - 1)

C39_InterleaverPermutation ==
    /\ [](/\ ~pcFI.overrun
          /\ Len(m_indices) <= m_carriers
          /\ TableEntries \subseteq 0..(m_carriers - 1)
          /\ Cardinality(TableEntries) = Len(m_indices))
    /\ [](pcFI.pc \in {"built", "process"} =>
              /\ pcFI.mode \in 0..4
              /\ m_carriers = SupportedCarriers(pcFI.mode)
              /\ Len(m_indices) = m_carriers
              /\ TableEntries = 0..(m_carriers - 1))
    /\ []((ev.op = "process" /\ ev.ret = "ok") =>
              /\ Len(dataOut.data) = dataOut.length \div sizeofT
              /\ \A b \in 0..(Len(dataOut.data) \div m_carriers - 1) : BlockOneToOne(b))
    /\ [][(ev'.op = "FrequencyInterleaver" /\ pcFI.pc = "none") =>
                /\ ev'.arg \notin 0..4 => pcFI'.pc = "failed" /\ ev'.ret = "throw"
                /\ (ev'.arg \in 0..4 /\ ev'.bad = "none") => pcFI'.pc = "loop"]_vars
    /\ [](pcFI.pc = "failed" => m_indices = <<>> /\ (pcFI.mode \notin 0..4 \/ ev.bad # "none"))

\* an interleaver of mode 1 has processed MaxBlocks blocks
C39_Witness ==
    /\ pcFI.pc = "built"
    /\ pcFI.mode = 1
    /\ Len(m_indices) = 1536
    /\ ev.op = "process"
    /\ ev.ret = "ok"
    /\ Len(dataOut.data) = MaxBlocks * 1536

=============================================================================
